---- MODULE Spec2Model ----
(***************************************************************************)
(* A model of the node-tree operators of the Node Tools add-on             *)
(* (src/src/operators/randomize_seed.py and the operator base classes in   *)
(* src/src/utils).  One node tree is modelled: its nodes and links in      *)
(* iteration order, its interface, and the add-on's custom property        *)
(* (auto_seed_counter).  Strings are sequences of one-character strings so *)
(* that strip(), lower(), endswith() and f-string formatting are computed  *)
(* rather than assumed.  Geometry (location, width, select) is left out:   *)
(* no operator reads it back.                                              *)
(***************************************************************************)
EXTENDS Integers, Sequences, FiniteSets, TLC

VARIABLES
    nodes,              \* node_tree.nodes, in iteration order
    links,              \* node_tree.links, in iteration order
    has_interface,      \* node_tree.interface is not None
    interface,          \* node_tree.interface.items_tree
    props_registered,   \* NodeTree.node_tools is registered (properties.register)
    auto_seed_counter,  \* node_tree.node_tools.auto_seed_counter
    op,                 \* the operator (or user edit) that ran last
    ret,                \* what the last _execute returned
    poll_msg,           \* the last message passed to poll_message_set
    outcome,            \* how the last execute() ended
    rewritten,          \* links the last RandomizeSeed rewrote completely
    assigned,           \* indices the last RandomizeSeed wrote into labels
    relabelled,         \* tagged nodes whose label the last ResetSeeds changed
    edits,              \* edits the user has made so far
    call,               \* the arguments of a utility function being called
    result,             \* what the utility function returned
    timers,             \* the registered timers: the updated_trees of each
    updates,            \* the trees of the update the host has yet to deliver
    passes,             \* runs of call_operators since the burst began
    runs,               \* the operator calls of the last call_operators
    depsgraph_update_post,  \* bpy.app.handlers.depsgraph_update_post
    enabled,            \* the add-on is registered: its preferences exist
    outer,              \* the interface of the tree that holds the Group nodes
    trees,              \* the node trees the Group nodes refer to, by name
    group_nodes,        \* the Group nodes (and one other node) of that tree
    tree_links,         \* the links at the Group nodes, by socket identifier
    host                \* what the host does where its documentation is silent

\* the variables of the calls of utility functions
call_vars == <<call, result>>

\* the variables of the update handler
timer_vars == <<timers, updates, passes, runs, depsgraph_update_post, enabled>>

\* the variables of MatchGroupInterface
match_vars == <<outer, trees, group_nodes, tree_links, host>>

\* the variables that the operators on the edited tree leave alone
aux_vars == <<timer_vars, match_vars>>

vars == <<nodes, links, has_interface, interface, props_registered,
          auto_seed_counter, op, ret, poll_msg, outcome,
          rewritten, assigned, relabelled, edits, call, result,
          timers, updates, passes, runs, depsgraph_update_post, enabled,
          outer, trees, group_nodes, tree_links, host>>

(***************************************************************************)
(* Bounds of the model.                                                    *)
(***************************************************************************)
MaxNodes == 10
MaxCounter == 2
MaxEdits == 2

\* the most nodes the user selects before running an operator
MaxSelected == 2

(***************************************************************************)
(* Strings.                                                                *)
(***************************************************************************)
TAG == <<"A","u","t","o","S","e","e","d","R","a","n","d","o","m","i","z","e","r">>

S_Seed == <<"S","e","e","d">>
S_seed == <<"s","e","e","d">>
S_SEED_sp == <<" ","S","E","E","D"," ">>
S_Value == <<"V","a","l","u","e">>
S_Hash == <<"H","a","s","h">>
S_Input == <<"I","n","p","u","t">>
S_Output == <<"O","u","t","p","u","t">>
S_Empty == <<>>

Range(s) == {s[i] : i \in 1..Len(s)}

\* A character is a string of one code point from U+0000 to U+00FF, the
\* code points a string of this module can hold.
\* the characters c with c.lower() != c, and c.lower() for each
UpperChars == <<"A","B","C","D","E","F","G","H","I","J","K","L","M",
                "N","O","P","Q","R","S","T","U","V","W","X","Y","Z",
                "À","Á","Â","Ã","Ä","Å","Æ","Ç","È","É","Ê","Ë","Ì",
                "Í","Î","Ï","Ð","Ñ","Ò","Ó","Ô","Õ","Ö","Ø","Ù","Ú",
                "Û","Ü","Ý","Þ">>
LowerChars == <<"a","b","c","d","e","f","g","h","i","j","k","l","m",
                "n","o","p","q","r","s","t","u","v","w","x","y","z",
                "à","á","â","ã","ä","å","æ","ç","è","é","ê","ë","ì",
                "í","î","ï","ð","ñ","ò","ó","ô","õ","ö","ø","ù","ú",
                "û","ü","ý","þ">>

\* the lower-case letter of each upper-case letter
LowerOf ==
    [c \in Range(UpperChars) |->
        LowerChars[CHOOSE i \in 1..Len(UpperChars) : UpperChars[i] = c]]

\* str.lower() on one character
LowerChar(c) == IF c \in DOMAIN LowerOf THEN LowerOf[c] ELSE c

\* str.lower()
Lower(s) == [i \in 1..Len(s) |-> LowerChar(s[i])]

\* str.isspace() on one character: tab, line feed, vertical tab, form
\* feed, carriage return, U+001C to U+001F, space, U+0085 and U+00A0
IsSpace(c) ==
    c \in {"\t", "\n", "", "\f", "\r", "", "", "", "", " ", "", " "}

\* str.strip(): leading and trailing whitespace removed
Strip(s) ==
    LET nonblank == {i \in 1..Len(s) : ~IsSpace(s[i])}
    IN  IF nonblank = {} THEN <<>>
        ELSE LET lo == CHOOSE i \in nonblank : \A j \in nonblank : i <= j
                 hi == CHOOSE i \in nonblank : \A j \in nonblank : i >= j
             IN  SubSeq(s, lo, hi)

\* name.strip().lower() == "seed"
IsSeedName(name) == Lower(Strip(name)) = S_seed

\* str.endswith(suffix)
EndsWith(s, suffix) ==
    /\ Len(s) >= Len(suffix)
    /\ SubSeq(s, Len(s) - Len(suffix) + 1, Len(s)) = suffix

Digits == <<"0","1","2","3","4","5","6","7","8","9">>

\* str(n)
RECURSIVE IntToStr(_)
IntToStr(n) ==
    IF n < 0 THEN <<"-">> \o IntToStr(0 - n)
    ELSE IF n < 10 THEN <<Digits[n + 1]>>
    ELSE IntToStr(n \div 10) \o <<Digits[(n % 10) + 1]>>

\* f"{counter} {TAG}"
FormatLabel(counter) == IntToStr(counter) \o <<" ">> \o TAG

(***************************************************************************)
(* The host's node tree: nodes, sockets and links as the operators see     *)
(* them through bpy.  A node's name is its key in node_tree.nodes and is   *)
(* unique in the tree; a socket is addressed by its position in            *)
(* node.inputs or node.outputs.                                            *)
(***************************************************************************)
LINK_LIMIT_MULTI == 4095

Socket(name, limit) ==
    [name |-> name, hide |-> FALSE, enabled |-> TRUE, link_limit |-> limit,
     default_value |-> 0]

NewNode(name, bl_idname, ins, outs) ==
    [name |-> name, bl_idname |-> bl_idname, label |-> S_Empty, hide |-> FALSE,
     parent |-> 0, inputs |-> ins, outputs |-> outs]

HasNode(ns, name) == \E i \in 1..Len(ns) : ns[i].name = name

NodeIndex(ns, name) == CHOOSE i \in 1..Len(ns) : ns[i].name = name

GetNode(ns, name) == ns[NodeIndex(ns, name)]

\* the name the host gives a new node: one that no node of the tree has
\* (names stand for object identity, so a name freed by a removal during an
\* operator is not handed out again by that operator)
FreshName(ns) ==
    IF ns = <<>> THEN 1
    ELSE 1 + CHOOSE k \in {ns[i].name : i \in 1..Len(ns)} :
                \A i \in 1..Len(ns) : ns[i].name <= k

\* is_socket_hidden(socket)
is_socket_hidden(socket) == socket.hide \/ ~socket.enabled

\* socket.is_linked for an output socket
OutputIsLinked(ls, name, s) ==
    \E i \in 1..Len(ls) : ls[i].from_node = name /\ ls[i].from_socket = s

\* collection["key"]: the position of the first socket with that exact name,
\* 0 when there is none (the lookup raises KeyError)
SocketByName(sockets, key) ==
    IF \E i \in 1..Len(sockets) : sockets[i].name = key
    THEN CHOOSE i \in 1..Len(sockets) :
            /\ sockets[i].name = key
            /\ \A j \in 1..(i - 1) : sockets[j].name # key
    ELSE 0

IsInputItem(item) == item.item_type = "SOCKET" /\ item.in_out = "INPUT"

\* the outputs of a Group Input node: one per interface input, in interface
\* order, then the host's unnamed extension socket
GroupInputOutputs(items) ==
    LET ins == SelectSeq(items, IsInputItem)
    IN  [i \in 1..Len(ins) |-> Socket(ins[i].name, LINK_LIMIT_MULTI)]
            \o <<Socket(S_Empty, LINK_LIMIT_MULTI)>>

\* node_tree.nodes.new(type=...), appended to the node list
NodesNew(ns, items, bl_idname) ==
    LET name == FreshName(ns)
        node == CASE bl_idname = "FunctionNodeHashValue" ->
                        NewNode(name, bl_idname,
                                <<Socket(S_Value, 1), Socket(S_Seed, 1)>>,
                                <<Socket(S_Hash, LINK_LIMIT_MULTI)>>)
                  [] bl_idname = "NodeGroupInput" ->
                        NewNode(name, bl_idname, <<>>, GroupInputOutputs(items))
                  [] OTHER -> NewNode(name, bl_idname, <<>>, <<>>)
    IN  Append(ns, node)

MkLink(fn, fs, tn, ts) ==
    [from_node |-> fn, from_socket |-> fs, to_node |-> tn, to_socket |-> ts]

CountInto(ls, tn, ts) ==
    Cardinality({i \in 1..Len(ls) : ls[i].to_node = tn /\ ls[i].to_socket = ts})

\* node_tree.links.new(from, to, verify_limits=True): the links already at the
\* destination are removed when one more would exceed its link limit, and a
\* multi-input destination drops an earlier link from the same source socket
LinksNew(ns, ls, fn, fs, tn, ts) ==
    LET limit == GetNode(ns, tn).inputs[ts].link_limit
        IntoTo(l) == l.to_node = tn /\ l.to_socket = ts
        NotIntoTo(l) == ~IntoTo(l)
        NotSame(l) == ~(IntoTo(l) /\ l.from_node = fn /\ l.from_socket = fs)
        kept == IF CountInto(ls, tn, ts) + 1 > limit
                THEN SelectSeq(ls, NotIntoTo)
                ELSE SelectSeq(ls, NotSame)
    IN  Append(kept, MkLink(fn, fs, tn, ts))

\* node_tree.nodes.remove(node): the node goes, and with it every link at one
\* of its sockets; a node parented to it loses its parent
NodesRemoveNodes(ns, name) ==
    LET Other(n) == n.name # name
        rest == SelectSeq(ns, Other)
    IN  [i \in 1..Len(rest) |->
            IF rest[i].parent = name THEN [rest[i] EXCEPT !.parent = 0] ELSE rest[i]]

NodesRemoveLinks(ls, name) ==
    LET Away(l) == l.from_node # name /\ l.to_node # name
    IN  SelectSeq(ls, Away)

(***************************************************************************)
(* Return values.  A Python function of the add-on returns None, a message *)
(* (str) or an OperatorResult.                                             *)
(***************************************************************************)
\* no utility function is being called
NoCall == [fn |-> "none"]

RetNone == [type |-> "NoneType", message |-> "", return_type |-> ""]
RetStr(msg) == [type |-> "str", message |-> msg, return_type |-> ""]

NoMsg == ""

(***************************************************************************)
(* utils/nodes.py: get_editable_node_tree.  The editor context, or the     *)
(* name, and the tree's editable / library flags are the caller's; ctx     *)
(* carries them: by ("context" | "name" | "none"), space ("NONE" or a      *)
(* space type), found (the tree is there), is_editable, library,           *)
(* has_nodes.  The result is a message, or NoMsg with the tree resolved.   *)
(***************************************************************************)
\* get_editable_node_tree as it would be without the test of node_tree.library
get_editable_node_tree_NoLibrary(ctx) ==
    CASE ctx.by = "context" /\ ctx.space = "NONE" -> "No active space found."
      [] ctx.by = "context" /\ ctx.space # "NODE_EDITOR" ->
            "Current editor is not a node editor."
      [] ctx.by = "context" /\ ~ctx.found ->
            "No node tree was found in the current node editor."
      [] ctx.by = "name" /\ ~ctx.found ->
            "Node tree '" \o ctx.name \o "' not found."
      [] ctx.by = "none" -> "Cannot find node tree."
      [] ~ctx.is_editable -> "Current node tree is not editable."
      [] ~ctx.has_nodes -> "Current node tree does not contain any nodes."
      [] OTHER -> NoMsg

get_editable_node_tree(ctx) ==
    CASE ctx.by = "context" /\ ctx.space = "NONE" -> "No active space found."
      [] ctx.by = "context" /\ ctx.space # "NODE_EDITOR" ->
            "Current editor is not a node editor."
      [] ctx.by = "context" /\ ~ctx.found ->
            "No node tree was found in the current node editor."
      [] ctx.by = "name" /\ ~ctx.found ->
            "Node tree '" \o ctx.name \o "' not found."
      [] ctx.by = "none" -> "Cannot find node tree."
      [] ~ctx.is_editable -> "Current node tree is not editable."
      [] ctx.library ->
            "Current node tree is linked from another .blend file and cannot be edited."
      [] ~ctx.has_nodes -> "Current node tree does not contain any nodes."
      [] OTHER -> NoMsg

(***************************************************************************)
(* utils/nodes.py: find_common_parent.  A node's parent is the name of the *)
(* frame it is in, 0 for None; the argument is the list the function       *)
(* iterates over.                                                          *)
(***************************************************************************)
\* get_parents(node): the frames around a node, the nearest first
RECURSIVE get_parents(_, _)
get_parents(ns, name) ==
    IF GetNode(ns, name).parent = 0 THEN <<>>
    ELSE <<GetNode(ns, name).parent>>
            \o get_parents(ns, GetNode(ns, name).parent)

\* find_common_parent as it would be with any() in place of all()
find_common_parent_Any(ns, names) ==
    LET parents == [i \in 1..Len(names) |-> get_parents(ns, names[i])]
        InSome(p) == \E i \in 2..Len(parents) : p \in Range(parents[i])
    IN  IF parents = <<>> THEN 0
        ELSE IF \E k \in 1..Len(parents[1]) : InSome(parents[1][k])
        THEN parents[1][CHOOSE k \in 1..Len(parents[1]) :
                            /\ InSome(parents[1][k])
                            /\ \A j \in 1..(k - 1) : ~InSome(parents[1][j])]
        ELSE 0

\* find_common_parent(nodes): the first parent of the first node that is
\* among the parents of every other node, 0 for None
find_common_parent(ns, names) ==
    LET parents == [i \in 1..Len(names) |-> get_parents(ns, names[i])]
        InAll(p) == \A i \in 2..Len(parents) : p \in Range(parents[i])
    IN  IF parents = <<>> THEN 0
        ELSE IF \E k \in 1..Len(parents[1]) : InAll(parents[1][k])
        THEN parents[1][CHOOSE k \in 1..Len(parents[1]) :
                            /\ InAll(parents[1][k])
                            /\ \A j \in 1..(k - 1) : ~InAll(parents[1][j])]
        ELSE 0

(***************************************************************************)
(* operators/randomize_seed.py                                             *)
(***************************************************************************)
\* the first output of a node whose name is "seed" after strip().lower(),
\* 0 when it has none (the inner loop of check_node_tree breaks there)
FirstSeedOutput(node) ==
    IF \E i \in 1..Len(node.outputs) : IsSeedName(node.outputs[i].name)
    THEN CHOOSE i \in 1..Len(node.outputs) :
            /\ IsSeedName(node.outputs[i].name)
            /\ \A j \in 1..(i - 1) : ~IsSeedName(node.outputs[j].name)
    ELSE 0

has_seed_input(items) ==
    \E i \in 1..Len(items) :
        /\ items[i].item_type = "SOCKET"
        /\ items[i].in_out = "INPUT"
        /\ IsSeedName(items[i].name)

has_linked_seed_inputs(ns, ls) ==
    \E i \in 1..Len(ns) :
        /\ ns[i].bl_idname = "NodeGroupInput"
        /\ FirstSeedOutput(ns[i]) # 0
        /\ ~is_socket_hidden(ns[i].outputs[FirstSeedOutput(ns[i])])
        /\ OutputIsLinked(ls, ns[i].name, FirstSeedOutput(ns[i]))

\* check_node_tree: a message, or NoMsg for None
check_node_tree(hasif, items, ns, ls) ==
    CASE ~hasif -> "Node tree has no interface"
      [] ~has_seed_input(items) -> "Node tree has no seed input"
      [] ~has_linked_seed_inputs(ns, ls) -> "No linked seed inputs found"
      [] OTHER -> NoMsg

IsTagged(node) ==
    node.bl_idname = "FunctionNodeHashValue" /\ EndsWith(node.label, TAG)

\* the condition of get_seed_links on one link
IsSeedLink(ns, link) ==
    /\ HasNode(ns, link.from_node)
    /\ HasNode(ns, link.to_node)
    /\ GetNode(ns, link.from_node).bl_idname = "NodeGroupInput"
    /\ IsSeedName(GetNode(ns, link.from_node).outputs[link.from_socket].name)
    /\ GetNode(ns, link.to_node).bl_idname # "NodeReroute"
    /\ ~IsTagged(GetNode(ns, link.to_node))

\* get_seed_links(node_tree): the qualifying links in iteration order; the
\* empty list stands for the message "No seed links found"
get_seed_links(ns, ls) ==
    LET Q(l) == IsSeedLink(ns, l)
    IN  SelectSeq(ls, Q)

\* get_tagged_nodes(node_tree)
get_tagged_nodes(ns) == SelectSeq(ns, IsTagged)

\* RandomizeSeed._poll_node_tree
PollLinks(check, seed_links) ==
    IF check # NoMsg THEN check
    ELSE IF seed_links = <<>> THEN "No seed links found" ELSE NoMsg

RandomizeSeed_poll_node_tree(hasif, items, ns, ls) ==
    PollLinks(check_node_tree(hasif, items, ns, ls), get_seed_links(ns, ls))

\* random_node = node_tree.nodes.new(...) set up: collapsed, labelled with the
\* counter, the counter in its Value input, in the destination node's frame.
\* ns is the node list with the new node last.
SetUpRandomNode(ns, counter, parent) ==
    [ns EXCEPT
        ![Len(ns)].hide = TRUE,
        ![Len(ns)].label = FormatLabel(counter),
        ![Len(ns)].inputs[SocketByName(ns[Len(ns)].inputs, S_Value)].default_value =
            counter,
        ![Len(ns)].parent = IF parent # 0 THEN parent ELSE @]

HideUnlessSeed(socket) == [socket EXCEPT !.hide = ~IsSeedName(socket.name)]

\* group_input_node = node_tree.nodes.new(...) set up: collapsed, labelled
\* "Seed", every output hidden but the seed output, in the destination
\* node's frame.  ns is the node list with the new node last.
SetUpGroupInput(ns, parent) ==
    [ns EXCEPT
        ![Len(ns)].hide = TRUE,
        ![Len(ns)].label = S_Seed,
        ![Len(ns)].outputs = [i \in 1..Len(ns[Len(ns)].outputs) |->
                                HideUnlessSeed(ns[Len(ns)].outputs[i])],
        ![Len(ns)].parent = IF parent # 0 THEN parent ELSE @]

\* IsOrphan as it would be if only the first output were asked for its links
IsOrphan_FirstOutputOnly(ns, ls, name) ==
    ~OutputIsLinked(ls, name, 1)

\* if not any(socket.is_linked for socket in from_node.outputs):
\*     node_tree.nodes.remove(from_node)
IsOrphan(ns, ls, name) ==
    ~\E i \in 1..Len(GetNode(ns, name).outputs) : OutputIsLinked(ls, name, i)

RemoveIfOrphan(st, ns, ls, name) ==
    IF IsOrphan(ns, ls, name)
    THEN [st EXCEPT !.nodes = NodesRemoveNodes(ns, name),
                    !.links = NodesRemoveLinks(ls, name)]
    ELSE [st EXCEPT !.nodes = ns, !.links = ls]

\* Rewire as it would be if the hash node were fed from the original seed
\* output, linked after the orphan check has removed its node
Rewire_SourceAfterRemoval(st, link, ns) ==
    LET r == Len(ns) - 1
        seed_in == SocketByName(ns[r].inputs, S_Seed)
        hash_out == SocketByName(ns[r].outputs, S_Hash)
        after == RemoveIfOrphan(
                    st, ns,
                    LinksNew(ns, st.links, ns[r].name, hash_out, link.to_node,
                             link.to_socket),
                    link.from_node)
    IN  [after EXCEPT !.links = LinksNew(after.nodes, after.links,
                                         link.from_node, link.from_socket,
                                         ns[r].name, seed_in)]

\* The two links.new calls and the removal of the orphaned source node.  ns is
\* the node list with the random node and the new Group Input node last.
\* group_input_node.outputs["Seed"] raises KeyError when no output has exactly
\* that name.
Rewire(st, link, ns) ==
    LET r == Len(ns) - 1
        g == Len(ns)
        seed_out == SocketByName(ns[g].outputs, S_Seed)
        seed_in == SocketByName(ns[r].inputs, S_Seed)
        hash_out == SocketByName(ns[r].outputs, S_Hash)
    IN  IF seed_out = 0
        THEN [st EXCEPT !.nodes = ns, !.error = "KeyError"]
        ELSE RemoveIfOrphan(
                st, ns,
                LinksNew(ns,
                         LinksNew(ns, st.links, ns[g].name, seed_out,
                                  ns[r].name, seed_in),
                         ns[r].name, hash_out, link.to_node, link.to_socket),
                link.from_node)

\* what the pass has counted: the index it wrote into a label, and the link
\* if both of its replacement links were made
Count(st, counter) ==
    [st EXCEPT !.counter = counter + 1,
               !.assigned = @ \cup {counter},
               !.rewritten = IF st.error = "" THEN @ + 1 ELSE @]

\* One pass of the loop body of RandomizeSeed._execute_node_tree, on the loop
\* state st = [nodes, links, counter, rewritten, assigned, error].  A link
\* that is no longer in the tree is a dead reference.
RewriteLink(st, link, items) ==
    IF link \notin Range(st.links)
    THEN [st EXCEPT !.error = "ReferenceError"]
    ELSE Count(
            Rewire(st, link,
                SetUpGroupInput(
                    NodesNew(
                        SetUpRandomNode(
                            NodesNew(st.nodes, items, "FunctionNodeHashValue"),
                            st.counter,
                            GetNode(st.nodes, link.to_node).parent),
                        items, "NodeGroupInput"),
                    GetNode(st.nodes, link.to_node).parent)),
            st.counter)

\* for link in links: ...   (an exception ends the loop)
RECURSIVE RewriteLinks(_, _, _)
RewriteLinks(st, seed_links, items) ==
    IF seed_links = <<>> \/ st.error # ""
    THEN st
    ELSE RewriteLinks(RewriteLink(st, Head(seed_links), items),
                      Tail(seed_links), items)

\* What one call leaves behind: the tree, the persisted counter, the value
\* returned, the exception raised ("" for none) and the message set.
Result(ns, ls, counter, r, error, msg, k, idx) ==
    [nodes |-> ns, links |-> ls, counter |-> counter, ret |-> r,
     error |-> error, poll_msg |-> msg, rewritten |-> k, assigned |-> idx]

\* the end of _execute_node_tree: props.auto_seed_counter = counter, which an
\* exception in the loop leaves before reaching
AfterLoop(st, counter) ==
    Result(st.nodes, st.links, IF st.error # "" THEN counter ELSE st.counter,
           RetNone, st.error, NoMsg, st.rewritten, st.assigned)

\* RandomizeSeed._execute_node_tree(node_tree)
RandomizeSeed_execute_node_tree(ns, ls, items, registered, counter) ==
    IF get_seed_links(ns, ls) = <<>>
    THEN Result(ns, ls, counter, RetStr("No seed links found"), "", NoMsg, 0, {})
    ELSE IF ~registered
    THEN Result(ns, ls, counter,
                RetStr("Failed to get custom properties for node tree."),
                "", NoMsg, 0, {})
    ELSE AfterLoop(
            RewriteLinks([nodes |-> ns, links |-> ls, counter |-> counter,
                          rewritten |-> 0, assigned |-> {}, error |-> ""],
                         get_seed_links(ns, ls), items),
            counter)

(***************************************************************************)
(* utils/handlers.py: BaseNodeTreeHandler._execute, for RandomizeSeed.     *)
(* The value of _execute_node_tree is not returned.                        *)
(***************************************************************************)
DropReturn(r) == [r EXCEPT !.ret = RetNone]

Cancelled(ns, ls, counter, msg) ==
    Result(ns, ls, counter, RetStr(msg), "", msg, 0, {})

RandomizeSeed_execute(node_tree, hasif, items, ns, ls, registered, counter) ==
    IF node_tree # NoMsg
    THEN Cancelled(ns, ls, counter, node_tree)
    ELSE IF RandomizeSeed_poll_node_tree(hasif, items, ns, ls) # NoMsg
    THEN Cancelled(ns, ls, counter,
                   RandomizeSeed_poll_node_tree(hasif, items, ns, ls))
    ELSE DropReturn(
            RandomizeSeed_execute_node_tree(ns, ls, items, registered, counter))

(***************************************************************************)
(* utils/operators.py: BaseOperator.execute.  result.message is read from  *)
(* whatever _execute returned; only an OperatorResult has that attribute.  *)
(***************************************************************************)
BaseOperator_execute(r) ==
    IF r.error # "" THEN r.error
    ELSE IF r.ret.type = "OperatorResult" THEN r.ret.return_type
    ELSE "AttributeError"

\* ResetSeeds._poll
ResetSeeds_poll(ctx, registered, counter) ==
    CASE get_editable_node_tree(ctx) # NoMsg -> get_editable_node_tree(ctx)
      [] ~registered -> "Failed to get custom properties for node tree."
      [] counter = 0 -> "No seeds to reset."
      [] OTHER -> NoMsg

TaggedBefore_Position(ns, i) == i - 1

\* the tagged nodes before position i in iteration order
TaggedBefore(ns, i) == Cardinality({j \in 1..(i - 1) : IsTagged(ns[j])})

\* RenumberTagged as it would be if the loop did not advance its counter
RenumberTagged_CounterStuck(ns) ==
    [i \in 1..Len(ns) |->
        IF IsTagged(ns[i])
        THEN [ns[i] EXCEPT
                !.label = FormatLabel(0),
                !.inputs[SocketByName(ns[i].inputs, S_Value)].default_value = 0]
        ELSE ns[i]]

\* the loop of ResetSeeds._execute: every tagged node is relabelled with its
\* rank among the tagged nodes, and its Value input takes the same number
RenumberTagged(ns) ==
    [i \in 1..Len(ns) |->
        IF IsTagged(ns[i])
        THEN [ns[i] EXCEPT
                !.label = FormatLabel(TaggedBefore(ns, i)),
                !.inputs[SocketByName(ns[i].inputs, S_Value)].default_value =
                    TaggedBefore(ns, i)]
        ELSE ns[i]]

\* ResetSeeds._execute
ResetSeeds_execute(ctx, ns, ls, registered, counter) ==
    IF get_editable_node_tree(ctx) # NoMsg
    THEN Result(ns, ls, counter, RetStr(get_editable_node_tree(ctx)), "", NoMsg, 0, {})
    ELSE IF ~registered
    THEN Result(ns, ls, counter,
                RetStr("Failed to get custom properties for node tree."),
                "", NoMsg, 0, {})
    ELSE Result(RenumberTagged(ns), ls, Len(get_tagged_nodes(ns)), RetNone, "",
                NoMsg, 0, {})

(***************************************************************************)
(* utils/nodes.py: get_selected_nodes.  The selection is a set of node     *)
(* names; context.selected_nodes lists the selected nodes in tree order.   *)
(* The result is a record: msg is the refusal ("" when there is none) and  *)
(* nodes the list returned.                                                *)
(***************************************************************************)
RECURSIVE JoinQuoted(_)
JoinQuoted(types) ==
    IF types = <<>> THEN ""
    ELSE IF Len(types) = 1 THEN "'" \o Head(types) \o "'"
    ELSE "'" \o Head(types) \o "', " \o JoinQuoted(Tail(types))

\* str() of a Python list of strings, as the f-string formats node_type
ListRepr(types) == "[" \o JoinQuoted(types) \o "]"

SelectedNodes(ns, selected) == SelectSeq(ns, LAMBDA n : n.name \in selected)

OfType(ns, node_type) == SelectSeq(ns, LAMBDA n : n.bl_idname \in Range(node_type))

get_selected_nodes(node_tree, ns, selected, node_type) ==
    IF node_tree # NoMsg THEN [msg |-> node_tree, nodes |-> <<>>]
    ELSE IF SelectedNodes(ns, selected) = <<>>
    THEN [msg |-> "No nodes selected.", nodes |-> <<>>]
    ELSE IF node_type # <<>>
    THEN IF OfType(SelectedNodes(ns, selected), node_type) = <<>>
         THEN [msg |-> "No selected nodes of type " \o ListRepr(node_type) \o ".",
               nodes |-> <<>>]
         ELSE [msg |-> NoMsg,
               nodes |-> OfType(SelectedNodes(ns, selected), node_type)]
    ELSE [msg |-> NoMsg, nodes |-> SelectedNodes(ns, selected)]

(***************************************************************************)
(* utils/operators.py: OperatorResult.                                     *)
(***************************************************************************)
OperatorResult(return_type, message_type, message) ==
    [type |-> "OperatorResult", message |-> message,
     return_type |-> return_type, message_type |-> message_type]

Finished(ns, ls, counter) ==
    Result(ns, ls, counter, OperatorResult("FINISHED", "", ""), "", NoMsg, 0, {})

\* OperatorResult({"CANCELLED"}, {"ERROR"}, msg) returned by _execute: the
\* message goes to self.report, poll_message_set is not called
CancelledResult(ns, ls, counter, msg) ==
    Result(ns, ls, counter, OperatorResult("CANCELLED", "ERROR", msg), "",
           NoMsg, 0, {})

(***************************************************************************)
(* operators/split_group_input.py: SplitMergeGroupInput.  Node locations   *)
(* are left out: they decide where a new node is drawn, never which nodes  *)
(* and links exist.                                                        *)
(***************************************************************************)
Modes == {"SPLIT_ALL", "DEST_NODE", "SOURCE_SOCKET", "MERGE_ALL"}

RECURSIVE Flatten(_)
Flatten(ss) == IF ss = <<>> THEN <<>> ELSE Head(ss) \o Flatten(Tail(ss))

\* socket.links of an output socket, in tree order
SocketLinks(ls, name, i) ==
    SelectSeq(ls, LAMBDA l : l.from_node = name /\ l.from_socket = i)

GroupKey_BySocketOnly(mode, socket_index, link) ==
    CASE mode = "SOURCE_SOCKET" -> socket_index
      [] mode = "DEST_NODE" -> socket_index
      [] OTHER -> 0

\* the key of the group a link joins; 0 stands for None
GroupKey(mode, socket_index, link) ==
    CASE mode = "SOURCE_SOCKET" -> socket_index
      [] mode = "DEST_NODE" -> link.to_node
      [] OTHER -> 0

\* the Location a link's group is given when the link is the group's first:
\* its parent and node, 0 for None; SPLIT_ALL gives none at this point
GroupLocation(ns, mode, individually, node, link) ==
    CASE mode = "SOURCE_SOCKET" /\ individually ->
            [parent |-> node.parent, node |-> node.name]
      [] mode = "DEST_NODE" ->
            [parent |-> GetNode(ns, link.to_node).parent, node |-> link.to_node]
      [] OTHER -> [parent |-> 0, node |-> 0]

\* the (socket_index, link) pairs one selected node adds to mapping m
NodeEntries(ns, ls, node, m, mode, individually) ==
    Flatten([i \in 1..Len(node.outputs) |->
        [j \in 1..Len(SocketLinks(ls, node.name, i)) |->
            [mapping |-> m,
             group_key |-> GroupKey(mode, i, SocketLinks(ls, node.name, i)[j]),
             location |-> GroupLocation(ns, mode, individually, node,
                                        SocketLinks(ls, node.name, i)[j]),
             socket_index |-> i,
             link |-> SocketLinks(ls, node.name, i)[j]]]])

\* the first loop: a new mapping per node when processing individually by
\* source socket or by destination node, one mapping for all otherwise
Mappings(ns, ls, selected_nodes, mode, individually) ==
    Flatten([k \in 1..Len(selected_nodes) |->
        NodeEntries(ns, ls, selected_nodes[k],
                    IF individually /\ mode \in {"SOURCE_SOCKET", "DEST_NODE"}
                    THEN k ELSE 1,
                    mode, individually)])

\* the groups in the order the second loop visits them: mapping by mapping,
\* and within a mapping in the order the keys were first inserted
RECURSIVE Groups(_, _)
Groups(entries, seen) ==
    IF entries = <<>> THEN <<>>
    ELSE IF <<Head(entries).mapping, Head(entries).group_key>> \in seen
    THEN Groups(Tail(entries), seen)
    ELSE <<<<Head(entries).mapping, Head(entries).group_key>>>>
            \o Groups(Tail(entries),
                      seen \cup {<<Head(entries).mapping, Head(entries).group_key>>})

GroupLinks(entries, g) ==
    SelectSeq(entries, LAMBDA e : <<e.mapping, e.group_key>> = g)

RECURSIVE SetToSeq(_)
SetToSeq(s) ==
    IF s = {} THEN <<>>
    ELSE <<CHOOSE x \in s : \A y \in s : x <= y>>
            \o SetToSeq(s \ {CHOOSE x \in s : \A y \in s : x <= y})

ConnectedNodes(group_links) == {group_links[i].link.to_node : i \in DOMAIN group_links}

\* the parent of a group's new node (all modes but SPLIT_ALL): the location's
\* parent, or the common parent of the connected nodes when the location
\* names no node or one node only is connected
GroupParent(ns, group_links) ==
    IF group_links[1].location.node = 0
            \/ Cardinality(ConnectedNodes(group_links)) = 1
    THEN find_common_parent(ns, SetToSeq(ConnectedNodes(group_links)))
    ELSE group_links[1].location.parent

\* node_tree.nodes.new(type=node_type) with hide set, the parent set when
\* there is one, and every output hidden
NewGroupInput(ns, parent) ==
    [ns EXCEPT
        ![Len(ns)].hide = TRUE,
        ![Len(ns)].parent = IF parent # 0 THEN parent ELSE @,
        ![Len(ns)].outputs = [i \in 1..Len(ns[Len(ns)].outputs) |->
                                [ns[Len(ns)].outputs[i] EXCEPT !.hide = TRUE]]]

LinksRemove(ls, link) == SelectSeq(ls, LAMBDA l : l # link)

MoveLink_FirstOutput(ns, ls, new_node, e) ==
    [nodes |-> [ns EXCEPT ![NodeIndex(ns, new_node)].outputs[e.socket_index].hide
                                = FALSE],
     links |-> LinksNew(ns, LinksRemove(ls, e.link), new_node, 1,
                        e.link.to_node, e.link.to_socket)]

\* one link moved to output socket_index of the new node
MoveLink(ns, ls, new_node, e) ==
    [nodes |-> [ns EXCEPT ![NodeIndex(ns, new_node)].outputs[e.socket_index].hide
                                = FALSE],
     links |-> LinksNew(ns, LinksRemove(ls, e.link), new_node, e.socket_index,
                        e.link.to_node, e.link.to_socket)]

\* the links of one group: a new node before the first link, and before
\* every link in SPLIT_ALL mode, where the parent is the destination's
RECURSIVE ProcessLinks(_, _, _, _, _, _)
ProcessLinks(st, es, new_node, mode, parent, items) ==
    IF es = <<>> THEN st
    ELSE IF new_node = 0 \/ mode = "SPLIT_ALL"
    THEN ProcessLinks(
            MoveLink(NewGroupInput(
                        NodesNew(st.nodes, items, "NodeGroupInput"),
                        IF mode = "SPLIT_ALL"
                        THEN GetNode(st.nodes, Head(es).link.to_node).parent
                        ELSE parent),
                     st.links, FreshName(st.nodes), Head(es)),
            Tail(es), FreshName(st.nodes), mode, parent, items)
    ELSE ProcessLinks(MoveLink(st.nodes, st.links, new_node, Head(es)),
                      Tail(es), new_node, mode, parent, items)

\* the second loop
RECURSIVE ProcessGroups(_, _, _, _, _)
ProcessGroups(st, entries, groups, mode, items) ==
    IF groups = <<>> THEN st
    ELSE ProcessGroups(
            ProcessLinks(st, GroupLinks(entries, Head(groups)), 0, mode,
                         IF mode = "SPLIT_ALL" THEN 0
                         ELSE GroupParent(st.nodes,
                                          GroupLinks(entries, Head(groups))),
                         items),
            entries, Tail(groups), mode, items)

\* the third loop: every selected Group Input node is removed
RECURSIVE RemoveNodes(_, _)
RemoveNodes(st, names) ==
    IF names = <<>> THEN st
    ELSE RemoveNodes([nodes |-> NodesRemoveNodes(st.nodes, Head(names)),
                      links |-> NodesRemoveLinks(st.links, Head(names))],
                     Tail(names))

SplitMergeLoops(ns, ls, entries, names, mode, items) ==
    RemoveNodes(ProcessGroups([nodes |-> ns, links |-> ls], entries,
                              Groups(entries, {}), mode, items),
                names)

SplitMerge(ns, ls, selected_nodes, mode, individually, items) ==
    SplitMergeLoops(ns, ls,
                    Mappings(ns, ls, selected_nodes, mode, individually),
                    [k \in 1..Len(selected_nodes) |-> selected_nodes[k].name],
                    mode, items)

SplitMergeGroupInput_poll(node_tree, ns, selected) ==
    get_selected_nodes(node_tree, ns, selected, <<"NodeGroupInput">>).msg

FinishedTree(st, counter) == Finished(st.nodes, st.links, counter)

SplitMergeGroupInput_run(sel, ns, ls, mode, individually, items, counter) ==
    IF sel.msg # NoMsg
    THEN CancelledResult(ns, ls, counter, sel.msg)
    ELSE FinishedTree(SplitMerge(ns, ls, sel.nodes, mode, individually, items),
                      counter)

SplitMergeGroupInput_execute(node_tree, ns, ls, selected, mode, ind, items, counter) ==
    SplitMergeGroupInput_run(
        get_selected_nodes(node_tree, ns, selected, <<"NodeGroupInput">>),
        ns, ls, mode, ind, items, counter)

(***************************************************************************)
(* operators/rename_node.py: HideRenameSingleOutputNode, a handler whose   *)
(* _poll_node_tree is the base class's stub.                               *)
(***************************************************************************)
VisibleOutputs(n) == SelectSeq(n.outputs, LAMBDA s : ~is_socket_hidden(s))

\* a node of get_nodes_with_single_output: every input hidden, one visible
\* output, and a label that is not that output's name
HasSingleOutput(n) ==
    /\ \A i \in 1..Len(n.inputs) : is_socket_hidden(n.inputs[i])
    /\ Len(VisibleOutputs(n)) = 1
    /\ VisibleOutputs(n)[1].name # n.label

get_nodes_with_single_output(ns) ==
    IF \A i \in 1..Len(ns) : ~HasSingleOutput(ns[i])
    THEN "No nodes to process."
    ELSE NoMsg

HideRename_execute_node_tree(ns, ls, counter) ==
    IF get_nodes_with_single_output(ns) # NoMsg
    THEN CancelledResult(ns, ls, counter, get_nodes_with_single_output(ns))
    ELSE Finished([i \in 1..Len(ns) |->
                        IF HasSingleOutput(ns[i])
                        THEN [ns[i] EXCEPT !.label = VisibleOutputs(ns[i])[1].name,
                                           !.hide = TRUE]
                        ELSE ns[i]],
                  ls, counter)

\* BaseNodeTreeHandler._execute: the value _execute_node_tree returns is dropped
HideRenameSingleOutputNode_execute(node_tree, ns, ls, counter) ==
    IF node_tree # NoMsg
    THEN Cancelled(ns, ls, counter, node_tree)
    ELSE DropReturn(HideRename_execute_node_tree(ns, ls, counter))

(***************************************************************************)
(* operators/resize_node.py: HideResizeNode toggles hide on the selection. *)
(***************************************************************************)
HideResizeNode_execute(node_tree, ns, ls, selected, counter) ==
    IF get_selected_nodes(node_tree, ns, selected, <<>>).msg # NoMsg
    THEN CancelledResult(ns, ls, counter,
                         get_selected_nodes(node_tree, ns, selected, <<>>).msg)
    ELSE Finished([i \in 1..Len(ns) |->
                        IF ns[i].name \in selected
                        THEN [ns[i] EXCEPT !.hide = ~ns[i].hide]
                        ELSE ns[i]],
                  ls, counter)

(***************************************************************************)
(* After register() the update handler is subscribed once; before the      *)
(* first notification no timer is registered.                              *)
(***************************************************************************)
TimerInit ==
    /\ timers = <<>>
    /\ updates = <<>>
    /\ passes = 0
    /\ runs = <<>>
    /\ depsgraph_update_post = <<"depsgraph_handler">>
    /\ enabled = TRUE

\* a tree without Group nodes
EmptyInterface == [items |-> <<>>, kids |-> (0 :> <<>>), next_uid |-> 1]

MatchInit ==
    /\ outer = EmptyInterface
    /\ trees = <<>>
    /\ group_nodes = <<>>
    /\ tree_links = <<>>
    /\ host = [reinit |-> FALSE]

AuxInit == TimerInit /\ MatchInit

(***************************************************************************)
(* The initial tree: a Math node inside a frame, a reroute, a node with a  *)
(* multi-input socket and two Group Input nodes, with no link or with one. *)
(* The interface is one of four: none, one without a seed input, one whose *)
(* input is named "Seed", one whose input is named " SEED ".               *)
(***************************************************************************)
Item(item_type, in_out, name) ==
    [item_type |-> item_type, in_out |-> in_out, name |-> name]

SeedInterface ==
    <<Item("SOCKET", "INPUT", S_Seed), Item("SOCKET", "INPUT", S_Value)>>

Interfaces ==
    { <<FALSE, <<>> >>,
      <<TRUE, <<Item("PANEL", "", S_Seed), Item("SOCKET", "OUTPUT", S_Seed),
                Item("SOCKET", "INPUT", S_Value)>> >>,
      <<TRUE, SeedInterface>>,
      <<TRUE, <<Item("SOCKET", "INPUT", S_SEED_sp),
                Item("SOCKET", "INPUT", S_Value)>> >> }

InitNodes(items) ==
    << [NewNode(1, "ShaderNodeMath", <<Socket(S_Value, 1)>>,
                <<Socket(S_Value, LINK_LIMIT_MULTI)>>) EXCEPT !.parent = 4],
       NewNode(2, "NodeReroute", <<Socket(S_Input, 1)>>,
               <<Socket(S_Output, LINK_LIMIT_MULTI)>>),
       NewNode(3, "GeometryNodeStringJoin",
               <<Socket(S_Value, LINK_LIMIT_MULTI)>>,
               <<Socket(S_Value, LINK_LIMIT_MULTI)>>),
       NewNode(4, "NodeFrame", <<>>, <<>>),
       NewNode(5, "NodeGroupInput", <<>>, GroupInputOutputs(items)),
       NewNode(6, "NodeGroupInput", <<>>, GroupInputOutputs(items)) >>

\* the first output of Group Input node 5 linked to the Math node's input
InitLink == <<MkLink(5, 1, 1, 1)>>

Init ==
    /\ \E i \in Interfaces :
        /\ has_interface = i[1]
        /\ interface = i[2]
        /\ nodes = InitNodes(i[2])
        /\ props_registered \in (IF i[2] = SeedInterface THEN BOOLEAN ELSE {TRUE})
        /\ links \in (IF i[1] THEN {<<>>, InitLink} ELSE {<<>>})
    /\ auto_seed_counter = 0
    /\ op = "none"
    /\ ret = RetNone
    /\ poll_msg = NoMsg
    /\ outcome = "none"
    /\ rewritten = 0
    /\ assigned = {}
    /\ relabelled = 0
    /\ edits = 0
    /\ AuxInit
    /\ call = NoCall
    /\ result = NoCall

(***************************************************************************)
(* The callers' contexts: the editor a menu entry runs in, or the name the *)
(* depsgraph handler passes.                                               *)
(***************************************************************************)
Ctx(by, space, found, is_editable, library, has_nodes) ==
    [by |-> by, space |-> space, found |-> found, is_editable |-> is_editable,
     library |-> library, has_nodes |-> has_nodes, name |-> "NodeTree"]

\* a node editor showing the tree, and one showing it library-linked
CtxOk == Ctx("context", "NODE_EDITOR", TRUE, TRUE, FALSE, TRUE)

CtxLinked == Ctx("context", "NODE_EDITOR", TRUE, TRUE, TRUE, TRUE)

Contexts == {CtxOk, CtxLinked}

\* node_tree_name set by the handler: the tree is looked up by name
CtxName == Ctx("name", "NONE", TRUE, TRUE, FALSE, TRUE)

(***************************************************************************)
(* Operator invocations.                                                   *)
(***************************************************************************)
\* the effect of a run on the tree and on what the run reported
ApplyTree(name, r) ==
    /\ nodes' = r.nodes
    /\ links' = r.links
    /\ auto_seed_counter' = r.counter
    /\ op' = name
    /\ ret' = r.ret
    /\ poll_msg' = r.poll_msg
    /\ outcome' = BaseOperator_execute(r)
    /\ rewritten' = r.rewritten
    /\ assigned' = r.assigned
    /\ relabelled' = Cardinality({i \in 1..Len(nodes) :
                        /\ IsTagged(nodes[i])
                        /\ i <= Len(r.nodes)
                        /\ r.nodes[i].name = nodes[i].name
                        /\ r.nodes[i].label # nodes[i].label})
    /\ UNCHANGED <<has_interface, interface, props_registered>>
    /\ UNCHANGED aux_vars

ApplyResult(name, r) == ApplyTree(name, r) /\ UNCHANGED call_vars

Apply(name, r) == ApplyResult(name, r) /\ UNCHANGED edits

\* an operator the user runs on a selection of nodes; the runs are counted
\* with the user's edits
Invoke(name, r) ==
    /\ edits < MaxEdits
    /\ edits' = edits + 1
    /\ ApplyResult(name, r)

\* RandomizeSeed.execute(context), from the menu or from the handler
InBounds(r) == Len(r.nodes) <= MaxNodes /\ r.counter <= MaxCounter

RandomizeSeed ==
    \E node_tree \in {get_editable_node_tree(ctx) : ctx \in Contexts \cup {CtxName}} :
        \E r \in {RandomizeSeed_execute(node_tree, has_interface, interface,
                                        nodes, links, props_registered,
                                        auto_seed_counter)} :
            /\ InBounds(r)
            /\ Apply("RandomizeSeed", r)

\* BaseOperator.poll(context) when _poll returns a message: the message is
\* passed to poll_message_set and the operator is not run
PollRefused(msg) ==
    /\ poll_msg' = msg
    /\ UNCHANGED <<nodes, links, has_interface, interface, props_registered,
                   auto_seed_counter, op, ret, outcome, rewritten, assigned,
                   relabelled, edits>>
    /\ UNCHANGED call_vars
    /\ UNCHANGED aux_vars

\* ResetSeeds from the menu: ResetSeeds.poll(context), and
\* ResetSeeds.execute(context) where the poll holds
ResetSeeds ==
    \E ctx \in Contexts :
        \E msg \in {ResetSeeds_poll(ctx, props_registered, auto_seed_counter)} :
            IF msg # NoMsg
            THEN PollRefused(msg)
            ELSE Apply("ResetSeeds",
                       ResetSeeds_execute(ctx, nodes, links, props_registered,
                                          auto_seed_counter))

(***************************************************************************)
(* The user's edits between invocations.                                   *)
(***************************************************************************)
UserEdit(ns, ls) ==
    /\ edits < MaxEdits
    /\ edits' = edits + 1
    /\ nodes' = ns
    /\ links' = ls
    /\ op' = "user"
    /\ ret' = RetNone
    /\ poll_msg' = NoMsg
    /\ outcome' = "none"
    /\ rewritten' = 0
    /\ assigned' = {}
    /\ relabelled' = 0
    /\ UNCHANGED <<has_interface, interface, props_registered, auto_seed_counter>>
    /\ UNCHANGED call_vars
    /\ UNCHANGED aux_vars

\* The links the user draws: a seed output of a Group Input node to the
\* input of the Math node, of the reroute or of the multi-input node, and
\* any other named output to the multi-input node.
UserMayLink(from_node, fs, to_node) ==
    /\ from_node.bl_idname = "NodeGroupInput"
    /\ from_node.outputs[fs].name # S_Empty
    /\ to_node.bl_idname \in {"ShaderNodeMath", "NodeReroute", "GeometryNodeStringJoin"}
    /\ IsSeedName(from_node.outputs[fs].name)
            \/ to_node.bl_idname = "GeometryNodeStringJoin"

UserLink ==
    \E f \in 1..Len(nodes), t \in 1..Len(nodes) :
        \E fs \in 1..Len(nodes[f].outputs), ts \in 1..Len(nodes[t].inputs) :
            /\ UserMayLink(nodes[f], fs, nodes[t])
            /\ MkLink(nodes[f].name, fs, nodes[t].name, ts) \notin Range(links)
            /\ UserEdit(nodes, LinksNew(nodes, links, nodes[f].name, fs,
                                        nodes[t].name, ts))

\* a seed output of a Group Input node is disabled (socket.enabled = False,
\* which the host accepts on a linked socket too); is_socket_hidden then holds
UserHide ==
    \E f \in 1..Len(nodes) :
        \E fs \in 1..Len(nodes[f].outputs) :
            /\ nodes[f].bl_idname = "NodeGroupInput"
            /\ IsSeedName(nodes[f].outputs[fs].name)
            /\ nodes[f].outputs[fs].enabled
            /\ UserEdit([nodes EXCEPT ![f].outputs[fs].enabled = FALSE], links)

\* a hash node is deleted
UserDelete ==
    \E i \in 1..Len(nodes) :
        /\ nodes[i].bl_idname = "FunctionNodeHashValue"
        /\ UserEdit(NodesRemoveNodes(nodes, nodes[i].name),
                    NodesRemoveLinks(links, nodes[i].name))

\* a hash node is relabelled
UserRelabel ==
    \E i \in 1..Len(nodes), label \in {S_Empty, FormatLabel(1)} :
        /\ nodes[i].bl_idname = "FunctionNodeHashValue"
        /\ UserEdit([nodes EXCEPT ![i].label = label], links)

\* the selections the user makes in the node editor: nothing, one node, or
\* several Group Input nodes
Selections(ns) ==
    {sel \in SUBSET {ns[i].name : i \in 1..Len(ns)} :
        /\ Cardinality(sel) <= MaxSelected
        /\ Cardinality(sel) <= 1
                \/ \A name \in sel : GetNode(ns, name).bl_idname = "NodeGroupInput"}

\* SplitMergeGroupInput with its two properties: poll(context), whose _poll
\* asks for selected Group Input nodes, and execute(context) where it holds
SplitMergeGroupInput ==
    \E node_tree \in {get_editable_node_tree(ctx) : ctx \in Contexts} :
        \E selected \in Selections(nodes), mode \in Modes,
           process_individually \in BOOLEAN :
            \E msg \in {get_selected_nodes(node_tree, nodes, selected,
                                           <<"NodeGroupInput">>).msg} :
                IF msg # NoMsg THEN PollRefused(msg)
                ELSE \E r \in {SplitMergeGroupInput_execute(node_tree, nodes,
                                    links, selected, mode, process_individually,
                                    interface, auto_seed_counter)} :
                        /\ InBounds(r)
                        /\ Invoke("SplitMergeGroupInput", r)

\* HideRenameSingleOutputNode.execute(context), from the menu or the handler
HideRenameSingleOutputNode ==
    \E node_tree \in {get_editable_node_tree(ctx) : ctx \in Contexts \cup {CtxName}} :
        Apply("HideRenameSingleOutputNode",
              HideRenameSingleOutputNode_execute(node_tree, nodes, links,
                                                 auto_seed_counter))

\* HideResizeNode: poll(context), whose _poll asks for selected nodes, and
\* execute(context) where it holds
HideResizeNode ==
    \E node_tree \in {get_editable_node_tree(ctx) : ctx \in Contexts} :
        \E selected \in Selections(nodes) :
            \E msg \in {get_selected_nodes(node_tree, nodes, selected, <<>>).msg} :
                IF msg # NoMsg THEN PollRefused(msg)
                ELSE Invoke("HideResizeNode",
                            HideResizeNode_execute(node_tree, nodes, links,
                                                   selected, auto_seed_counter))

Next ==
    \/ RandomizeSeed
    \/ ResetSeeds
    \/ UserLink
    \/ UserHide
    \/ UserDelete
    \/ UserRelabel

Spec == Init /\ [][Next]_vars

\* RandomizeSeed alone, on a tree the user edits by linking and hiding
NextSeed ==
    \/ RandomizeSeed
    \/ UserLink
    \/ UserHide

SpecSeed == Init /\ [][NextSeed]_vars

\* RandomizeSeed and ResetSeeds on a tree whose hash nodes the user deletes
\* and relabels
NextReset ==
    \/ RandomizeSeed
    \/ ResetSeeds
    \/ UserLink
    \/ UserDelete
    \/ UserRelabel

SpecReset == Init /\ [][NextReset]_vars

\* the operators that edit the nodes and links of the tree, in any order, on
\* every tree of Init; the tree is followed while it has at most
\* MaxGraphNodes nodes
MaxGraphNodes == 8

GraphBound == Len(nodes') <= MaxGraphNodes

NextGraph ==
    \/ RandomizeSeed /\ GraphBound
    \/ ResetSeeds /\ GraphBound
    \/ SplitMergeGroupInput /\ GraphBound
    \/ HideRenameSingleOutputNode /\ GraphBound
    \/ HideResizeNode /\ GraphBound

SpecGraph == Init /\ [][NextGraph]_vars

(***************************************************************************)
(* Calls of find_common_parent: on every forest of MaxForest frames (a     *)
(* frame's parent has a greater name, which gives every shape of forest)   *)
(* and every list of distinct frames.                                      *)
(***************************************************************************)
MaxForest == 4

Forests == {p \in [1..MaxForest -> 0..MaxForest] :
                \A i \in 1..MaxForest : p[i] = 0 \/ p[i] > i}

ForestNodes(p) ==
    [i \in 1..MaxForest |->
        [NewNode(i, "NodeFrame", <<>>, <<>>) EXCEPT !.parent = p[i]]]

\* the lists of distinct nodes, the empty one included
NodeLists ==
    UNION {{q \in [1..n -> 1..MaxForest] : \A i, j \in 1..n : i # j => q[i] # q[j]}
            : n \in 0..(MaxForest - 1)}

InitParent ==
    /\ \E p \in Forests : nodes = ForestNodes(p)
    /\ call \in {[fn |-> "find_common_parent", nodes |-> q] : q \in NodeLists}
    /\ result = NoCall
    /\ links = <<>>
    /\ has_interface = FALSE
    /\ interface = <<>>
    /\ props_registered = TRUE
    /\ auto_seed_counter = 0
    /\ op = "none"
    /\ ret = RetNone
    /\ poll_msg = NoMsg
    /\ outcome = "none"
    /\ rewritten = 0
    /\ assigned = {}
    /\ relabelled = 0
    /\ edits = 0
    /\ AuxInit

FindCommonParent ==
    /\ call.fn = "find_common_parent"
    /\ result = NoCall
    /\ result' = [fn |-> "find_common_parent",
                  value |-> find_common_parent(nodes, call.nodes)]
    /\ UNCHANGED <<nodes, links, has_interface, interface, props_registered,
                   auto_seed_counter, op, ret, poll_msg, outcome, rewritten,
                   assigned, relabelled, edits, call>>
    /\ UNCHANGED aux_vars

SpecParent == InitParent /\ [][FindCommonParent]_vars

(***************************************************************************)
(* Calls of get_editable_node_tree: with a context, with a name or with    *)
(* neither, in every combination of editor and tree flags.                 *)
(***************************************************************************)
AllContexts ==
    {Ctx(by, space, found, is_editable, library, has_nodes) :
        by \in {"context", "name", "none"},
        space \in {"NONE", "NODE_EDITOR", "VIEW_3D"},
        found \in BOOLEAN, is_editable \in BOOLEAN,
        library \in BOOLEAN, has_nodes \in BOOLEAN}

InitTree ==
    /\ call \in {[fn |-> "get_editable_node_tree", ctx |-> c] : c \in AllContexts}
    /\ result = NoCall
    /\ nodes = InitNodes(SeedInterface)
    /\ links = <<>>
    /\ has_interface = TRUE
    /\ interface = SeedInterface
    /\ props_registered = TRUE
    /\ auto_seed_counter = 0
    /\ op = "none"
    /\ ret = RetNone
    /\ poll_msg = NoMsg
    /\ outcome = "none"
    /\ rewritten = 0
    /\ assigned = {}
    /\ relabelled = 0
    /\ edits = 0
    /\ AuxInit

GetEditableNodeTree ==
    /\ call.fn = "get_editable_node_tree"
    /\ result = NoCall
    /\ result' = [fn |-> "get_editable_node_tree",
                  value |-> get_editable_node_tree(call.ctx)]
    /\ UNCHANGED <<nodes, links, has_interface, interface, props_registered,
                   auto_seed_counter, op, ret, poll_msg, outcome, rewritten,
                   assigned, relabelled, edits, call>>
    /\ UNCHANGED aux_vars

SpecTree == InitTree /\ [][GetEditableNodeTree]_vars

(***************************************************************************)
(* Properties.                                                             *)
(***************************************************************************)
\* the messages with which get_editable_node_tree turns a caller away
TreeMessages ==
    {get_editable_node_tree(c) : c \in Contexts \cup {CtxName}} \ {NoMsg}

MaxOf(S) == CHOOSE m \in S : \A x \in S : x <= m

HashNodes(ns) == {i \in 1..Len(ns) : ns[i].bl_idname = "FunctionNodeHashValue"}

TaggedNodes(ns) == {i \in 1..Len(ns) : IsTagged(ns[i])}

GroupInputs(ns) == {i \in 1..Len(ns) : ns[i].bl_idname = "NodeGroupInput"}

\* a step in which a poll turned the caller away and no operator ran
PollOnly ==
    /\ poll_msg' # NoMsg
    /\ UNCHANGED <<nodes, links, auto_seed_counter, op, ret, outcome, rewritten,
                   assigned, relabelled>>

\* a step in which ResetSeeds.execute ran, which sets no poll message
ResetSeedsRan == op' = "ResetSeeds" /\ poll_msg' = NoMsg

(* C1: when RandomizeSeed has just run on the tree and is invoked again with
   nothing changed in between, the second invocation leaves the nodes (and
   so their labels), the links and auto_seed_counter as they were. *)
C1_SecondRunIsNoOp ==
    [][(op = "RandomizeSeed" /\ poll_msg \notin TreeMessages
            /\ op' = "RandomizeSeed")
        => UNCHANGED <<nodes, links, auto_seed_counter>>]_vars

(* C2: every RandomizeSeed invocation advances auto_seed_counter by the
   number of links it rewrote, to one past the highest index it wrote into a
   label, and nothing else changes the counter: starting from 0, the counter
   is the sum of the links rewritten so far and never decreases. *)
C2_CounterAccounting ==
    [][/\ op' = "RandomizeSeed" =>
            /\ auto_seed_counter' = auto_seed_counter + rewritten'
            /\ assigned' # {} => auto_seed_counter' = MaxOf(assigned') + 1
       /\ op' # "RandomizeSeed" => auto_seed_counter' = auto_seed_counter]_vars

(* C3: no two tagged hash nodes of the tree carry the same label, that is,
   the same assigned index. *)
C3_IndexUnique ==
    \A i, j \in TaggedNodes(nodes) :
        i # j => nodes[i].label # nodes[j].label

\* the links of the pre-state that get_seed_links hands to the loop
SeedLinks == Range(get_seed_links(nodes, links))

\* a link from a seed output of a Group Input node
FromSeedOutput(ns, l) ==
    /\ HasNode(ns, l.from_node)
    /\ GetNode(ns, l.from_node).bl_idname = "NodeGroupInput"
    /\ IsSeedName(GetNode(ns, l.from_node).outputs[l.from_socket].name)

SameDestination(l1, l2) ==
    l1.to_node = l2.to_node /\ l1.to_socket = l2.to_socket

(* C4: an invocation that rewrites k links adds k tagged hash nodes and k
   Group Input nodes (less the source nodes it removes as orphans), the k
   seed links it rewrote are gone, every other link is kept and exactly 2k
   links are new. *)
C4_Conservation ==
    [][op' = "RandomizeSeed" =>
        LET k == rewritten'
            removed == {i \in GroupInputs(nodes) : ~HasNode(nodes', nodes[i].name)}
        IN  /\ Cardinality(HashNodes(nodes')) = Cardinality(HashNodes(nodes)) + k
            /\ Cardinality(GroupInputs(nodes')) =
                    Cardinality(GroupInputs(nodes)) + k - Cardinality(removed)
            /\ Len(nodes') = Len(nodes) + 2 * k - Cardinality(removed)
            /\ k > 0 => SeedLinks \cap Range(links') = {}
            /\ (Range(links) \ SeedLinks) \subseteq Range(links')
            /\ Cardinality(Range(links') \ Range(links)) = 2 * k
            /\ Len(links') = Len(links) + k]_vars

(* C5: after an invocation has rewritten the seed link l, a new tagged hash
   node h and a new Group Input node g are in the tree such that g has
   exactly one link, from its Seed output to h's Seed input, h's output is
   linked to l's destination socket, and no seed output of a Group Input
   node feeds that socket directly any more. *)
C5_ReplacementWiring ==
    [][(op' = "RandomizeSeed" /\ rewritten' > 0) =>
        \A l \in SeedLinks :
            /\ \E h \in TaggedNodes(nodes'), g \in GroupInputs(nodes') :
                /\ ~HasNode(nodes, nodes'[h].name)
                /\ ~HasNode(nodes, nodes'[g].name)
                /\ {x \in Range(links') : x.from_node = nodes'[g].name
                                          \/ x.to_node = nodes'[g].name}
                     = {MkLink(nodes'[g].name,
                               SocketByName(nodes'[g].outputs, S_Seed),
                               nodes'[h].name,
                               SocketByName(nodes'[h].inputs, S_Seed))}
                /\ MkLink(nodes'[h].name, SocketByName(nodes'[h].outputs, S_Hash),
                          l.to_node, l.to_socket) \in Range(links')
            /\ ~\E x \in Range(links') :
                    SameDestination(x, l) /\ FromSeedOutput(nodes', x)]_vars

\* the links leaving a node
LinksFrom(ls, name) == {x \in Range(ls) : x.from_node = name}

(* C6: after an invocation has rewritten links, each node f that was the
   source of a rewritten link is absent if none of its outputs is linked any
   more, and is still in the tree, unchanged, with its other links, if it has
   links left. *)
C6_OrphanElimination ==
    [][(op' = "RandomizeSeed" /\ rewritten' > 0) =>
        \A l \in SeedLinks :
            /\ (LinksFrom(links, l.from_node) \ SeedLinks) # {} =>
                    /\ HasNode(nodes', l.from_node)
                    /\ GetNode(nodes', l.from_node) = GetNode(nodes, l.from_node)
                    /\ (LinksFrom(links, l.from_node) \ SeedLinks)
                            \subseteq Range(links')
            /\ HasNode(nodes', l.from_node) <=>
                    LinksFrom(links', l.from_node) # {}]_vars

\* a source node with a rewritten seed link was removed, and another one, with
\* a rewritten seed link too, was kept because an output of it is still linked
C6_Witness ==
    /\ op = "RandomizeSeed"
    /\ rewritten = 2
    /\ ~HasNode(nodes, 5)
    /\ HasNode(nodes, 6)
    /\ \E x \in LinksFrom(links, 6) : ~FromSeedOutput(nodes, x)

\* one of the conditions under which the operator has nothing to work on
PreconditionFails ==
    \/ ~has_interface
    \/ ~has_seed_input(interface)
    \/ ~has_linked_seed_inputs(nodes, links)
    \/ SeedLinks = {}
    \/ ~props_registered

(* C7: an invocation on a tree that fails a precondition leaves nodes, links,
   labels and auto_seed_counter as they were and surfaces a message, as the
   poll message or as the value the handler returns. *)
C7_PreconditionFailure ==
    [][(op' = "RandomizeSeed" /\ poll_msg' \notin TreeMessages /\ PreconditionFails) =>
        /\ UNCHANGED <<nodes, links, auto_seed_counter>>
        /\ poll_msg' # NoMsg \/ (ret'.type = "str" /\ ret'.message # NoMsg)]_vars

(* C8: every invocation of RandomizeSeed ends with a status, never with an
   exception: CANCELLED when no link was rewritten, FINISHED when at least
   one was. *)
C8_OutcomeReporting ==
    op = "RandomizeSeed" =>
        /\ outcome \in {"FINISHED", "CANCELLED"}
        /\ rewritten = 0 => outcome = "CANCELLED"
        /\ rewritten > 0 => outcome = "FINISHED"

\* every tagged node carries its rank among the tagged nodes, in node order
InOrder(ns) ==
    \A i \in TaggedNodes(ns) : ns[i].label = FormatLabel(TaggedBefore(ns, i))

NodeNames(ns) == {ns[i].name : i \in 1..Len(ns)}

(* C9 as stated: an invocation of RandomizeSeed on a tree whose tagged nodes
   do not carry their position order renumbers them so that they do, and
   creates no node. *)
C9_RandomizeSeedRenumbers ==
    [][(op' = "RandomizeSeed" /\ poll_msg' \notin TreeMessages /\ ~PollOnly
            /\ TaggedNodes(nodes) # {} /\ ~InOrder(nodes)) =>
        /\ InOrder(nodes')
        /\ NodeNames(nodes') \subseteq NodeNames(nodes)]_vars

(* C9: it is ResetSeeds that renumbers: after it has run, the tagged nodes
   carry 0, 1, 2, ... in node order, no two the same, auto_seed_counter is
   their number, and no node or link was created or removed.  RandomizeSeed
   leaves the label of every tagged node that was in the tree as it was. *)
C9_ResetSeedsRenumbers ==
    [][/\ ResetSeedsRan =>
            /\ InOrder(nodes')
            /\ \A i, j \in TaggedNodes(nodes') :
                    i # j => nodes'[i].label # nodes'[j].label
            /\ TaggedNodes(nodes') = TaggedNodes(nodes)
            /\ auto_seed_counter' = Cardinality(TaggedNodes(nodes))
            /\ [i \in 1..Len(nodes') |-> nodes'[i].name] =
                    [i \in 1..Len(nodes) |-> nodes[i].name]
            /\ links' = links
       /\ op' = "RandomizeSeed" =>
            \A i \in TaggedNodes(nodes) :
                /\ HasNode(nodes', nodes[i].name)
                /\ GetNode(nodes', nodes[i].name).label = nodes[i].label]_vars

\* ResetSeeds has run on two tagged nodes and has relabelled one of them
C9_Witness ==
    /\ op = "ResetSeeds"
    /\ relabelled > 0
    /\ Cardinality(TaggedNodes(nodes)) = 2
    /\ InOrder(nodes)

\* a link the operator is to rewrite, as the claim describes it
Eligible(ns, l) ==
    /\ FromSeedOutput(ns, l)
    /\ ~is_socket_hidden(GetNode(ns, l.from_node).outputs[l.from_socket])
    /\ GetNode(ns, l.to_node).bl_idname # "NodeReroute"
    /\ ~IsTagged(GetNode(ns, l.to_node))

\* l is gone and its destination is fed by a tagged hash node that the step
\* created
Rewritten(l) ==
    \E h \in TaggedNodes(nodes') :
        /\ l \notin Range(links')
        /\ ~HasNode(nodes, nodes'[h].name)
        /\ MkLink(nodes'[h].name, SocketByName(nodes'[h].outputs, S_Hash),
                  l.to_node, l.to_socket) \in Range(links')

(* C10: an invocation that passes the preconditions rewrites a link if and
   only if the link leaves a seed output (name compared without case and
   surrounding blanks) of a Group Input node that is not hidden, and enters
   a node that is neither a reroute nor a tagged hash node; every other link
   is in the tree afterwards, unchanged. *)
C10_Eligibility ==
    [][(op' = "RandomizeSeed" /\ poll_msg' = NoMsg /\ props_registered) =>
        \A l \in Range(links) :
            /\ Rewritten(l) <=> Eligible(nodes, l)
            /\ ~Eligible(nodes, l) => l \in Range(links')]_vars

\* the node k steps up from a node, 0 past the top
RECURSIVE Up(_, _, _)
Up(ns, name, k) ==
    IF name = 0 \/ k = 0 THEN name ELSE Up(ns, GetNode(ns, name).parent, k - 1)

IsProperAncestor(ns, a, name) == \E k \in 1..Len(ns) : Up(ns, name, k) = a

CommonAncestors(ns, names) ==
    {a \in NodeNames(ns) : \A n \in Range(names) : IsProperAncestor(ns, a, n)}

(* C19: find_common_parent returns a proper ancestor of every node it was
   given, none of whose descendants is one too; it returns None exactly when
   it was given no node or the nodes have no ancestor in common. *)
C19_NearestCommonAncestor ==
    result.fn = "find_common_parent" =>
        /\ result.value = 0 <=>
                (call.nodes = <<>> \/ CommonAncestors(nodes, call.nodes) = {})
        /\ result.value # 0 =>
                /\ result.value \in CommonAncestors(nodes, call.nodes)
                /\ \A d \in CommonAncestors(nodes, call.nodes) :
                        ~IsProperAncestor(nodes, result.value, d)

\* two nodes whose nearest common ancestor is not the first one's own parent
C19_Witness ==
    /\ result.fn = "find_common_parent"
    /\ Len(call.nodes) >= 2
    /\ result.value # 0
    /\ result.value # GetNode(nodes, call.nodes[1]).parent

\* the cases in which the claim has get_editable_node_tree refuse
Rejected(ctx) ==
    \/ ctx.by = "none"
    \/ ctx.by = "context" /\ ctx.space # "NODE_EDITOR"
    \/ ~ctx.found
    \/ ~ctx.is_editable
    \/ ctx.library
    \/ ~ctx.has_nodes

(* C18: get_editable_node_tree returns a message when the editor is not a
   node editor, when no tree is there (in the editor, or under the name),
   when the tree is not editable, is library-linked or has no node
   container, and when neither a context nor a name is given; in every
   other case it returns the tree. *)
C18_EditableTree ==
    result.fn = "get_editable_node_tree" =>
        (result.value # NoMsg <=> Rejected(call.ctx))

\* a tree shown in a node editor, editable and with nodes, was refused because
\* it is library-linked
C18_Witness ==
    /\ result.fn = "get_editable_node_tree"
    /\ call.ctx.library
    /\ call.ctx.is_editable /\ call.ctx.found /\ call.ctx.has_nodes
    /\ call.ctx.by = "context" /\ call.ctx.space = "NODE_EDITOR"
    /\ result.value # NoMsg

(***************************************************************************)
(* handlers.py: depsgraph_handler registers a timer on every notification  *)
(* that names a node tree, and call_operators runs when a timer fires.     *)
(* "NodeTree" is the tree of this model; "Material" is a tree that         *)
(* bpy.data.node_groups does not hold.                                     *)
(***************************************************************************)
MaxTimers == 3

handler_operators == {"RandomizeSeed", "HideRenameSingleOutputNode"}

TreeIds == {"NodeTree", "Material"}

\* the lists depsgraph_handler collects: one entry per updated tree
UpdatedTrees ==
    {<<a>> : a \in TreeIds} \cup {p \in TreeIds \X TreeIds : p[1] # p[2]}

\* the orders in which the set handler_operators is iterated
HandlerOrders ==
    {p \in handler_operators \X handler_operators : p[1] # p[2]}

\* bpy.data.node_groups.get(name)
CtxNamed(name) == [CtxName EXCEPT !.name = name, !.found = (name = "NodeTree")]

\* cls.poll_node_tree(node_tree_name): whether the handler may run on the
\* tree, and the message it passes to poll_message_set when it may not
poll_node_tree(cls, name, hasif, items, ns, ls) ==
    IF get_editable_node_tree(CtxNamed(name)) # NoMsg
    THEN [ok |-> FALSE, msg |-> get_editable_node_tree(CtxNamed(name))]
    ELSE IF cls = "RandomizeSeed"
    THEN [ok |-> RandomizeSeed_poll_node_tree(hasif, items, ns, ls) = NoMsg,
          msg |-> RandomizeSeed_poll_node_tree(hasif, items, ns, ls)]
    ELSE [ok |-> TRUE, msg |-> NoMsg]

\* op(node_tree_name=node_tree_name)
HandlerCall(cls, name, hasif, items, ns, ls, registered, counter) ==
    IF cls = "RandomizeSeed"
    THEN RandomizeSeed_execute(get_editable_node_tree(CtxNamed(name)), hasif,
                               items, ns, ls, registered, counter)
    ELSE HideRenameSingleOutputNode_execute(
            get_editable_node_tree(CtxNamed(name)), ns, ls, counter)

\* the (handler, tree) pairs of the two nested loops, in order
PassCalls(order, active, updated_trees) ==
    Flatten([i \in 1..Len(order) |->
                IF order[i] \in active
                THEN [j \in 1..Len(updated_trees) |-> <<order[i], updated_trees[j]>>]
                ELSE <<>>])

PassState(ns, ls, counter, done, raised, msg, k, idx) ==
    [nodes |-> ns, links |-> ls, counter |-> counter, runs |-> done,
     raised |-> raised, poll_msg |-> msg, rewritten |-> k, assigned |-> idx]

\* the state after one operator call: an exception inside execute reaches
\* call_operators as a RuntimeError and ends the pass
AfterCall(st, c, r) ==
    PassState(r.nodes, r.links, r.counter, Append(st.runs, c),
              BaseOperator_execute(r) \notin {"FINISHED", "CANCELLED"},
              IF r.poll_msg # NoMsg THEN r.poll_msg ELSE st.poll_msg,
              IF c[1] = "RandomizeSeed" THEN r.rewritten ELSE st.rewritten,
              IF c[1] = "RandomizeSeed" THEN r.assigned ELSE st.assigned)

\* a refusing poll_node_tree leaves its message and the call is skipped
AfterPoll(st, p) == [st EXCEPT !.poll_msg = p.msg]

RECURSIVE RunPass(_, _, _, _, _)
RunPass(st, calls, hasif, items, registered) ==
    IF calls = <<>> \/ st.raised THEN st
    ELSE IF ~poll_node_tree(Head(calls)[1], Head(calls)[2], hasif, items,
                            st.nodes, st.links).ok
    THEN RunPass(AfterPoll(st, poll_node_tree(Head(calls)[1], Head(calls)[2],
                                              hasif, items, st.nodes,
                                              st.links)),
                 Tail(calls), hasif, items, registered)
    ELSE RunPass(AfterCall(st, Head(calls),
                           HandlerCall(Head(calls)[1], Head(calls)[2], hasif,
                                       items, st.nodes, st.links, registered,
                                       st.counter)),
                 Tail(calls), hasif, items, registered)

\* call_operators as it would be if it did not ask for the preferences
call_operators_WithoutPreferences(has_prefs, order, active, updated_trees, hasif, items, ns, ls, registered, counter) ==
    RunPass(PassState(ns, ls, counter, <<>>, FALSE, NoMsg, 0, {}),
            PassCalls(order, active, updated_trees), hasif, items, registered)

\* call_operators(updated_trees); without preferences it returns at once
call_operators(has_prefs, order, active, updated_trees, hasif, items, ns, ls, registered, counter) ==
    IF ~has_prefs THEN PassState(ns, ls, counter, <<>>, FALSE, NoMsg, 0, {})
    ELSE RunPass(PassState(ns, ls, counter, <<>>, FALSE, NoMsg, 0, {}),
                 PassCalls(order, active, updated_trees), hasif, items,
                 registered)

\* the timers that one update registers: the host calls every entry of
\* depsgraph_update_post, and depsgraph_handler registers a timer
register_timer(pending, handlers, updated_trees) ==
    pending \o [i \in 1..Len(handlers) |-> updated_trees]

\* depsgraph_handler(scene, depsgraph) for an update that names node trees;
\* a notification that finds no timer pending begins a burst
Notify ==
    \E updated_trees \in UpdatedTrees :
        /\ depsgraph_update_post # <<>>
        /\ passes + Len(timers) + Len(depsgraph_update_post) <= MaxTimers
        /\ timers' = register_timer(timers, depsgraph_update_post, updated_trees)
        /\ passes' = IF timers = <<>> THEN 0 ELSE passes
        /\ UNCHANGED <<nodes, links, has_interface, interface, props_registered,
                       auto_seed_counter, op, ret, poll_msg, outcome, rewritten,
                       assigned, relabelled, edits, updates, runs,
                       depsgraph_update_post, enabled>>
        /\ UNCHANGED call_vars
        /\ UNCHANGED match_vars

\* the host's update after a pass when the pass's changes are followed: a
\* changed tree is in the update that the host delivers once the timer's
\* function has returned
UpdateAfterPass(pending, follow, ns, ls, new_ns, new_ls) ==
    IF follow /\ (new_ns # ns \/ new_ls # ls)
    THEN <<"NodeTree">>
    ELSE pending

\* the oldest timer fires: its call_operators runs, and returning None
\* unregisters it; prefs and actives are what the preferences may hold when
\* it runs, max_nodes and max_counter the size up to which the tree is
\* followed, follow whether the update the pass raises is followed
FirePass(prefs, actives, max_nodes, max_counter, follow) ==
    /\ timers # <<>>
    /\ \E has_prefs \in prefs, order \in HandlerOrders, active \in actives :
        \E st \in {call_operators(has_prefs, order, active, Head(timers),
                        has_interface, interface, nodes, links,
                        props_registered, auto_seed_counter)} :
            /\ Len(st.nodes) <= max_nodes /\ st.counter <= max_counter
            /\ nodes' = st.nodes
            /\ links' = st.links
            /\ auto_seed_counter' = st.counter
            /\ runs' = st.runs
            /\ outcome' = IF st.raised THEN "RuntimeError" ELSE "none"
            /\ poll_msg' = st.poll_msg
            /\ rewritten' = st.rewritten
            /\ assigned' = st.assigned
            /\ updates' = UpdateAfterPass(updates, follow, nodes, links,
                                           st.nodes, st.links)
    /\ timers' = Tail(timers)
    /\ passes' = passes + 1
    /\ op' = "call_operators"
    /\ ret' = RetNone
    /\ relabelled' = 0
    /\ UNCHANGED <<has_interface, interface, props_registered, edits>>
    /\ UNCHANGED <<depsgraph_update_post, enabled>>
    /\ UNCHANGED call_vars
    /\ UNCHANGED match_vars

\* a pass whose own changes are not followed
Fire ==
    FirePass(BOOLEAN, SUBSET handler_operators, MaxNodes, MaxCounter, FALSE)

NextTimer ==
    \/ Notify
    \/ Fire

SpecTimer == Init /\ [][NextTimer]_vars

(***************************************************************************)
(* operators/match_group_interface.py: copy_socket_properties.  An         *)
(* interface socket carries the eleven properties every socket has and, in *)
(* data, the properties its socket type exposes; a property value is a     *)
(* record of its Python class and a number standing for the value.         *)
(***************************************************************************)
MaxValue == 1

SocketTypes ==
    {"NodeSocketFloat", "NodeSocketInt", "NodeSocketBool", "NodeSocketGeometry",
     "NodeSocketMenu", "NodeSocketVector"}

attrs == <<"default_value", "min_value", "max_value", "subtype", "dimensions">>

\* the properties of attrs that an interface socket of a type has
ExposedAttrs(socket_type) ==
    CASE socket_type \in {"NodeSocketFloat", "NodeSocketInt"} ->
            {"default_value", "min_value", "max_value", "subtype"}
      [] socket_type = "NodeSocketVector" ->
            {"default_value", "min_value", "max_value", "subtype", "dimensions"}
      [] socket_type \in {"NodeSocketBool", "NodeSocketMenu"} -> {"default_value"}
      [] OTHER -> {}

\* type(value) for the value of a property of a socket type
ClassOf(socket_type, attr) ==
    CASE attr = "subtype" -> "str"
      [] attr = "dimensions" -> "int"
      [] socket_type = "NodeSocketFloat" -> "float"
      [] socket_type = "NodeSocketInt" -> "int"
      [] socket_type = "NodeSocketBool" -> "bool"
      [] socket_type = "NodeSocketMenu" -> "str"
      [] attr = "default_value" -> "Vector"
      [] OTHER -> "float"

Value(class, v) == [kind |-> "value", class |-> class, value |-> v]

\* type(x): the class object of a value
TypeOf(x) == [kind |-> "type", class |-> "type", value |-> x.class]

\* a is b: a class object is no property value
Is(a, b) == a.kind = b.kind /\ a.class = b.class /\ a.value = b.value

SocketData(socket_type) ==
    {[a \in ExposedAttrs(socket_type) |-> Value(ClassOf(socket_type, a), f[a])] :
        f \in [ExposedAttrs(socket_type) -> 0..MaxValue]}

\* the data a socket has after its socket type was set
DefaultData(socket_type) ==
    [a \in ExposedAttrs(socket_type) |-> Value(ClassOf(socket_type, a), 0)]

InterfaceSocket(role, name, socket_type, data) ==
    [item_type |-> "SOCKET", in_out |-> "INPUT", name |-> name,
     socket_type |-> socket_type,
     attribute_domain |-> IF role = "source" THEN "POINT" ELSE "EDGE",
     default_attribute_name |-> role, default_input |-> role,
     description |-> role, hide_in_modifier |-> role = "source",
     hide_value |-> role = "source", is_panel_toggle |-> role = "source",
     menu_expanded |-> role = "source",
     structure_type |-> IF role = "source" THEN "AUTO" ELSE "SINGLE",
     data |-> data]

hasattr(socket, attr) == attr \in DOMAIN socket.data

\* target.socket_type = socket_type: a new type brings the data of that
\* type; reinit tells whether assigning the type the socket already has
\* makes the host create the data anew as well
SetSocketType(target, socket_type, reinit) ==
    IF socket_type = target.socket_type /\ ~reinit
    THEN target
    ELSE [target EXCEPT !.socket_type = socket_type,
                        !.data = DefaultData(socket_type)]

\* lines 72-82
CopyCommon(source, target, reinit) ==
    [SetSocketType(target, source.socket_type, reinit) EXCEPT
        !.attribute_domain = source.attribute_domain,
        !.default_attribute_name = source.default_attribute_name,
        !.default_input = source.default_input,
        !.description = source.description,
        !.hide_in_modifier = source.hide_in_modifier,
        !.hide_value = source.hide_value,
        !.is_panel_toggle = source.is_panel_toggle,
        !.menu_expanded = source.menu_expanded,
        !.name = source.name,
        !.structure_type = source.structure_type]

\* lines 88-91: the target's value is compared with the class of the
\* source's value
RECURSIVE CopyAttrs(_, _, _)
CopyAttrs(source, target, names) ==
    IF names = <<>> THEN target
    ELSE IF /\ hasattr(target, Head(names))
            /\ hasattr(source, Head(names))
            /\ Is(target.data[Head(names)], TypeOf(source.data[Head(names)]))
    THEN CopyAttrs(source,
                   [target EXCEPT !.data[Head(names)] = source.data[Head(names)]],
                   Tail(names))
    ELSE CopyAttrs(source, target, Tail(names))

AfterCommon(source, target) ==
    IF target.socket_type = "NodeSocketMenu" THEN target
    ELSE CopyAttrs(source, target, attrs)

copy_socket_properties(source, target, reinit) ==
    AfterCommon(source, CopyCommon(source, target, reinit))

\* the sockets copy_socket_properties is called with
InterfaceSockets(role, names) ==
    {InterfaceSocket(role, name, t[1], t[2]) :
        name \in names, t \in {p \in SocketTypes \X UNION {SocketData(u) : u \in SocketTypes} :
                                    p[2] \in SocketData(p[1])}}

\* no operator has run on the tree, no timer is registered
IdleTree ==
    /\ nodes = InitNodes(SeedInterface)
    /\ links = <<>>
    /\ has_interface = TRUE
    /\ interface = SeedInterface
    /\ props_registered = TRUE
    /\ auto_seed_counter = 0
    /\ op = "none"
    /\ ret = RetNone
    /\ poll_msg = NoMsg
    /\ outcome = "none"
    /\ rewritten = 0
    /\ assigned = {}
    /\ relabelled = 0
    /\ edits = 0
    /\ TimerInit

UnchangedTree ==
    /\ UNCHANGED <<nodes, links, has_interface, interface, props_registered,
                   auto_seed_counter, op, ret, poll_msg, outcome, rewritten,
                   assigned, relabelled, edits>>
    /\ UNCHANGED aux_vars

InitCopy ==
    /\ call \in {[fn |-> "copy_socket_properties", source |-> x, target |-> y] :
                    x \in InterfaceSockets("source", {"A"}),
                    y \in InterfaceSockets("target", {"a"})}
    /\ result = NoCall
    /\ IdleTree
    /\ MatchInit

CopySocketProperties ==
    /\ call.fn = "copy_socket_properties"
    /\ result = NoCall
    /\ \E reinit \in BOOLEAN :
            result' = [fn |-> "copy_socket_properties",
                       value |-> copy_socket_properties(call.source, call.target,
                                                        reinit)]
    /\ UNCHANGED call
    /\ UnchangedTree

SpecCopy == InitCopy /\ [][CopySocketProperties]_vars

(***************************************************************************)
(* The host's NodeTreeInterface.  An interface is a record: items maps the *)
(* uid of an item (a socket's identifier, a panel's persistent_uid) to the *)
(* item, kids maps the uid of a panel to the uids of its interface_items   *)
(* in order, and next_uid is the uid the next new item gets.  The root     *)
(* panel has uid 0 and is no item.                                         *)
(***************************************************************************)
InterfacePanel(name, description, default_closed) ==
    [item_type |-> "PANEL", name |-> name, description |-> description,
     default_closed |-> default_closed]

IsPanel(iface, u) == iface.items[u].item_type = "PANEL"

\* item.parent (its persistent_uid) and item.position
ParentOf(iface, u) == CHOOSE q \in DOMAIN iface.kids : u \in Range(iface.kids[q])

PositionOf(iface, u) ==
    CHOOSE i \in 1..Len(iface.kids[ParentOf(iface, u)]) :
        iface.kids[ParentOf(iface, u)][i] = u

\* interface.items_tree: the items in depth-first order
RECURSIVE ItemsBelow(_, _)
ItemsBelow(iface, us) ==
    IF us = <<>> THEN <<>>
    ELSE <<Head(us)>>
            \o (IF IsPanel(iface, Head(us))
                THEN ItemsBelow(iface, iface.kids[Head(us)]) ELSE <<>>)
            \o ItemsBelow(iface, Tail(us))

items_tree(iface) == ItemsBelow(iface, iface.kids[0])

Without(us, u) == SelectSeq(us, LAMBDA x : x # u)

\* a list with u put in at index position (from 0), which is brought into
\* the range of the list first
InsertAt(us, position, u) ==
    IF position >= Len(us) THEN Append(us, u)
    ELSE IF position <= 0 THEN <<u>> \o us
    ELSE SubSeq(us, 1, position) \o <<u>> \o SubSeq(us, position + 1, Len(us))

\* interface.new_panel(name, description, default_closed): the panel is
\* added at the end of the root panel
new_panel(iface, name, description, default_closed) ==
    [items |-> (iface.next_uid :> InterfacePanel(name, description, default_closed))
                    @@ iface.items,
     kids |-> (iface.next_uid :> <<>>)
                    @@ [iface.kids EXCEPT ![0] = Append(@, iface.next_uid)],
     next_uid |-> iface.next_uid + 1]

\* interface.move_to_parent(item, parent, to_position); within one panel
\* an item moved towards the end lands before the item at to_position
move_to_parent(iface, u, parent, to_position) ==
    IF ParentOf(iface, u) = parent
    THEN [iface EXCEPT !.kids[parent] =
            InsertAt(Without(@, u),
                     IF PositionOf(iface, u) - 1 < to_position
                     THEN to_position - 1 ELSE to_position,
                     u)]
    ELSE [iface EXCEPT !.kids =
            [q \in DOMAIN iface.kids |->
                IF q = parent THEN InsertAt(iface.kids[q], to_position, u)
                ELSE Without(iface.kids[q], u)]]

RECURSIVE Descendants(_, _)
Descendants(iface, u) ==
    IF ~IsPanel(iface, u) THEN {}
    ELSE Range(iface.kids[u])
            \cup UNION {Descendants(iface, k) : k \in Range(iface.kids[u])}

Splice(us, u, content) ==
    Flatten([i \in 1..Len(us) |-> IF us[i] = u THEN content ELSE <<us[i]>>])

Drop(iface, gone, kids) ==
    [items |-> [u \in DOMAIN iface.items \ gone |-> iface.items[u]],
     kids |-> [q \in DOMAIN kids \ gone |-> kids[q]],
     next_uid |-> iface.next_uid]

remove_WithContent(iface, u, move_content_to_parent) ==
    Drop(iface, {u} \cup Descendants(iface, u),
         [iface.kids EXCEPT ![ParentOf(iface, u)] = Without(@, u)])

\* interface.remove(item, move_content_to_parent): the content of a removed
\* panel takes the panel's place in its parent, or goes with the panel
remove(iface, u, move_content_to_parent) ==
    IF move_content_to_parent /\ IsPanel(iface, u)
    THEN Drop(iface, {u},
              [iface.kids EXCEPT ![ParentOf(iface, u)] =
                    Splice(@, u, iface.kids[u])])
    ELSE Drop(iface, {u} \cup Descendants(iface, u),
              [iface.kids EXCEPT ![ParentOf(iface, u)] = Without(@, u)])

(***************************************************************************)
(* operators/match_group_interface.py: MatchGroupInterface.                *)
(***************************************************************************)
GroupNodeTypes ==
    <<"CompositorNodeGroup", "GeometryNodeGroup", "ShaderNodeGroup",
      "TextureNodeGroup">>

\* utils.nodes.check_nodetree_editable(node_tree): None ("" here) for a tree
\* that can be edited and is not linked from a library
check_nodetree_editable(tree) ==
    IF ~tree.is_editable THEN "Current node tree is not editable."
    ELSE IF tree.library
    THEN "Current node tree is linked from another .blend file and cannot be edited."
    ELSE NoMsg

IsEditableGroup_AnyTree(ts, node) ==
    node.node_tree # "None" /\ ts[node.node_tree].has_interface

\* the test of lines 60-62 on one selected Group node
IsEditableGroup(ts, node) ==
    /\ node.node_tree # "None"
    /\ check_nodetree_editable(ts[node.node_tree]) = NoMsg
    /\ ts[node.node_tree].has_interface

EditableGroups(ts, sel) ==
    IF sel.msg # NoMsg THEN sel
    ELSE IF SelectSeq(sel.nodes, LAMBDA n : IsEditableGroup(ts, n)) = <<>>
    THEN [msg |-> "No editable Group nodes selected.", nodes |-> <<>>]
    ELSE [msg |-> NoMsg,
          nodes |-> SelectSeq(sel.nodes, LAMBDA n : IsEditableGroup(ts, n))]

get_editable_nodegroups(node_tree, ns, selected, ts) ==
    EditableGroups(ts, get_selected_nodes(node_tree, ns, selected, GroupNodeTypes))

is_panel_empty(iface, u) == \A k \in Descendants(iface, u) : IsPanel(iface, k)

\* lines 139-143: the persistent_uid of every panel above an item, the
\* root panel's included
RECURSIVE PanelsAbove(_, _)
PanelsAbove(iface, u) ==
    IF u = 0 THEN {}
    ELSE {ParentOf(iface, u)} \cup PanelsAbove(iface, ParentOf(iface, u))

\* the links of lines 161-170: from a Group Input node to the Group node
MatchedLinks(ls, node) ==
    SelectSeq(ls, LAMBDA l : l.from_bl_idname = "NodeGroupInput"
                                /\ l.to_node = node.name)

\* sockets_map: a later link replaces the entry of an earlier one
RECURSIVE SocketsMap(_)
SocketsMap(ls) ==
    IF ls = <<>> THEN <<>>
    ELSE (ls[Len(ls)].from_socket :> ls[Len(ls)].to_socket)
            @@ SocketsMap(SubSeq(ls, 1, Len(ls) - 1))

PanelsToCreate(source, ls) ==
    UNION {PanelsAbove(source, ls[i].from_socket) : i \in 1..Len(ls)}

MatchState(iface, panels_map) == [iface |-> iface, panels_map |-> panels_map]

MoveLikeSource_AtFront(st, source, u, target) ==
    MatchState(move_to_parent(st.iface, target,
                              st.panels_map[ParentOf(source, u)], 0),
               st.panels_map)

\* lines 196-200
MoveLikeSource(st, source, u, target) ==
    MatchState(move_to_parent(st.iface, target,
                              st.panels_map[ParentOf(source, u)],
                              PositionOf(source, u) - 1),
               st.panels_map)

\* lines 183-188
CreatePanel(st, source, u) ==
    MatchState(new_panel(st.iface, source.items[u].name,
                         source.items[u].description,
                         source.items[u].default_closed),
               (u :> st.iface.next_uid) @@ st.panels_map)

\* lines 194-195
CopySocket(st, source, u, target, reinit) ==
    MatchState([st.iface EXCEPT !.items[target] =
                    copy_socket_properties(source.items[u], @, reinit)],
               st.panels_map)

\* the loop of lines 178-200 over the items of the source interface
RECURSIVE MatchItems(_, _, _, _, _, _)
MatchItems(st, us, source, sockets_map, panels, reinit) ==
    IF us = <<>> THEN st
    ELSE IF IsPanel(source, Head(us))
    THEN IF Head(us) \notin panels
         THEN MatchItems(st, Tail(us), source, sockets_map, panels, reinit)
         ELSE MatchItems(MoveLikeSource(CreatePanel(st, source, Head(us)), source,
                                        Head(us), st.iface.next_uid),
                         Tail(us), source, sockets_map, panels, reinit)
    ELSE IF Head(us) \notin DOMAIN sockets_map
    THEN MatchItems(st, Tail(us), source, sockets_map, panels, reinit)
    ELSE MatchItems(MoveLikeSource(CopySocket(st, source, Head(us),
                                              sockets_map[Head(us)], reinit),
                                   source, Head(us), sockets_map[Head(us)]),
                    Tail(us), source, sockets_map, panels, reinit)

\* lines 207-214
PanelsToDelete(iface) ==
    SelectSeq(items_tree(iface),
              LAMBDA u : IsPanel(iface, u) /\ is_panel_empty(iface, u))

RECURSIVE RemoveReversed(_, _)
RemoveReversed(iface, us) ==
    IF us = <<>> THEN iface
    ELSE RemoveReversed(remove(iface, us[Len(us)], FALSE),
                        SubSeq(us, 1, Len(us) - 1))

RemoveEmptyPanels_Keep(iface) == iface

RemoveEmptyPanels(iface) == RemoveReversed(iface, PanelsToDelete(iface))

\* lines 175-214 for one Group node, on the interface of its tree
MatchInterface(iface, source, ls, reinit) ==
    RemoveEmptyPanels(
        remove(MatchItems(MatchState(new_panel(iface, "Root_temp", "", FALSE),
                                     (0 :> iface.next_uid)),
                          items_tree(source), source, SocketsMap(ls),
                          PanelsToCreate(source, ls), reinit).iface,
               iface.next_uid, TRUE))

\* the loop of lines 147-214 over the Group nodes
RECURSIVE MatchNodes(_, _, _, _, _)
MatchNodes(ts, ns, source, ls, reinit) ==
    IF ns = <<>> THEN ts
    ELSE MatchNodes(
            [ts EXCEPT ![Head(ns).node_tree].interface =
                MatchInterface(@, source, MatchedLinks(ls, Head(ns)), reinit)],
            Tail(ns), source, ls, reinit)

MatchGroupInterface_poll(node_tree, ns, selected, ts) ==
    get_editable_nodegroups(node_tree, ns, selected, ts).msg

\* MatchGroupInterface._execute: the result and the trees afterwards
MatchGroupInterface_run(groups, ts, source, ls, reinit) ==
    IF groups.msg # NoMsg
    THEN [ret |-> OperatorResult("CANCELLED", "ERROR", groups.msg), trees |-> ts]
    ELSE [ret |-> OperatorResult("FINISHED", "", ""),
          trees |-> MatchNodes(ts, groups.nodes, source, ls, reinit)]

MatchGroupInterface_execute(node_tree, ns, selected, ts, source, ls, reinit) ==
    MatchGroupInterface_run(get_editable_nodegroups(node_tree, ns, selected, ts),
                            ts, source, ls, reinit)

(***************************************************************************)
(* The trees MatchGroupInterface is run on.  The edited tree has the       *)
(* interface inputs A, B, C (uids 1, 2, 3), the output X (4) and the       *)
(* panels P (5) and Q (6).  Group node G1 refers to tree T1 with the       *)
(* inputs a, b, c (1, 2, 3), the output y (4) and the panels Z (5) and     *)
(* E (6); Group node G2 refers to T2 or to no tree; N is a Math node.      *)
(***************************************************************************)
FullData(socket_type) ==
    [a \in ExposedAttrs(socket_type) |-> Value(ClassOf(socket_type, a), MaxValue)]

Output(socket) == [socket EXCEPT !.in_out = "OUTPUT"]

OuterItems ==
    (1 :> InterfaceSocket("source", "A", "NodeSocketFloat", FullData("NodeSocketFloat")))
    @@ (2 :> InterfaceSocket("source", "B", "NodeSocketInt", FullData("NodeSocketInt")))
    @@ (3 :> InterfaceSocket("source", "C", "NodeSocketMenu", FullData("NodeSocketMenu")))
    @@ (4 :> Output(InterfaceSocket("source", "X", "NodeSocketFloat",
                                    FullData("NodeSocketFloat"))))
    @@ (5 :> InterfacePanel("P", "panel P", TRUE))
    @@ (6 :> InterfacePanel("Q", "panel Q", FALSE))

\* [P[A, B], Q[C], X],  [A, P[B, Q[C]], X]  and  [C, B, A, X, P[Q[]]]
OuterShapes ==
    { (0 :> <<5, 6, 4>>) @@ (5 :> <<1, 2>>) @@ (6 :> <<3>>),
      (0 :> <<1, 5, 4>>) @@ (5 :> <<2, 6>>) @@ (6 :> <<3>>),
      (0 :> <<3, 2, 1, 4, 5>>) @@ (5 :> <<6>>) @@ (6 :> <<>>) }

InnerItems ==
    (1 :> InterfaceSocket("target", "a", "NodeSocketFloat", DefaultData("NodeSocketFloat")))
    @@ (2 :> InterfaceSocket("target", "b", "NodeSocketFloat", DefaultData("NodeSocketFloat")))
    @@ (3 :> InterfaceSocket("target", "c", "NodeSocketBool", DefaultData("NodeSocketBool")))
    @@ (4 :> Output(InterfaceSocket("target", "y", "NodeSocketInt",
                                    DefaultData("NodeSocketInt"))))
    @@ (5 :> InterfacePanel("Z", "panel Z", FALSE))
    @@ (6 :> InterfacePanel("E", "panel E", FALSE))

\* [a, b, c, y, Z[], E[]],  [Z[a, c], b, y, E[]]  and  [c, Z[E[], b], y, a]
InnerShapes ==
    { (0 :> <<1, 2, 3, 4, 5, 6>>) @@ (5 :> <<>>) @@ (6 :> <<>>),
      (0 :> <<5, 2, 4, 6>>) @@ (5 :> <<1, 3>>) @@ (6 :> <<>>),
      (0 :> <<3, 5, 4, 1>>) @@ (5 :> <<6, 2>>) @@ (6 :> <<>>) }

Interface(items, kids) == [items |-> items, kids |-> kids, next_uid |-> 7]

NodeTree(is_editable, library, iface) ==
    [is_editable |-> is_editable, library |-> library, has_interface |-> TRUE,
     interface |-> iface]

\* what G2 refers to: no tree, or T2, which is local, linked from a library,
\* or not editable
SecondTrees ==
    {<<"None", NodeTree(TRUE, FALSE, Interface(<<>>, (0 :> <<>>)))>>,
     <<"T2", NodeTree(TRUE, FALSE, Interface(<<>>, (0 :> <<>>)))>>,
     <<"T2", NodeTree(TRUE, TRUE, Interface(<<>>, (0 :> <<>>)))>>,
     <<"T2", NodeTree(FALSE, FALSE, Interface(<<>>, (0 :> <<>>)))>>}

GroupNode(name, bl_idname, node_tree) ==
    [name |-> name, bl_idname |-> bl_idname, node_tree |-> node_tree]

TreeLink(from_bl_idname, from_node, from_socket, to_bl_idname, to_node, to_socket) ==
    [from_bl_idname |-> from_bl_idname, from_node |-> from_node,
     from_socket |-> from_socket, to_bl_idname |-> to_bl_idname,
     to_node |-> to_node, to_socket |-> to_socket]

\* the links into G1: input i of G1 is fed by output f[i] of the Group Input
\* node, or by nothing when f[i] = 0
InputLinks(f) ==
    Flatten([i \in 1..3 |->
        IF f[i] = 0 THEN <<>>
        ELSE <<TreeLink("NodeGroupInput", "Group Input", f[i],
                        "GeometryNodeGroup", "G1", i)>>])

\* output y of G1 linked to input X of the Group Output node
OutputLink ==
    <<TreeLink("GeometryNodeGroup", "G1", 4, "NodeGroupOutput", "Group Output", 4)>>

LocalTree == NodeTree(TRUE, FALSE, Interface(<<>>, (0 :> <<>>)))

\* G1 wired in every way, beside a Group node G2 whose tree can be edited
InitMatch ==
    /\ \E kids \in OuterShapes : outer = Interface(OuterItems, kids)
    /\ \E kids \in InnerShapes :
            trees = ("T1" :> NodeTree(TRUE, FALSE, Interface(InnerItems, kids)))
                        @@ ("T2" :> LocalTree)
    /\ group_nodes = <<GroupNode("G1", "GeometryNodeGroup", "T1"),
                       GroupNode("G2", "GeometryNodeGroup", "T2")>>
    /\ \E f \in [1..3 -> 0..3] : tree_links = InputLinks(f) \o OutputLink
    /\ host \in {[reinit |-> b] : b \in BOOLEAN}
    /\ call = NoCall
    /\ result = NoCall
    /\ IdleTree

\* G1 wired one to one, beside a Math node and a Group node G2 that may not
\* qualify
InitSelect ==
    /\ \E kids \in OuterShapes : outer = Interface(OuterItems, kids)
    /\ \E kids \in InnerShapes, second \in SecondTrees :
            /\ trees = ("T1" :> NodeTree(TRUE, FALSE, Interface(InnerItems, kids)))
                            @@ ("T2" :> second[2])
            /\ group_nodes = <<GroupNode("G1", "GeometryNodeGroup", "T1"),
                               GroupNode("G2", "GeometryNodeGroup", second[1]),
                               GroupNode("N", "ShaderNodeMath", "None")>>
    /\ tree_links = InputLinks([i \in 1..3 |-> i]) \o OutputLink
    /\ host \in {[reinit |-> b] : b \in BOOLEAN}
    /\ call = NoCall
    /\ result = NoCall
    /\ IdleTree

\* MatchGroupInterface on a selection: poll(context), whose _poll asks for
\* the editable Group nodes and passes the message to poll_message_set when
\* there is none, and execute(context) where the poll holds.  call keeps
\* what the editor showed and the selection, and the runs are counted with
\* the user's edits
MatchGroupInterface ==
    /\ \E node_tree \in {get_editable_node_tree(ctx) : ctx \in Contexts} :
        \E selected \in SUBSET {group_nodes[i].name : i \in 1..Len(group_nodes)} :
            \E msg \in {get_editable_nodegroups(node_tree, group_nodes,
                                                selected, trees).msg} :
                IF msg # NoMsg
                THEN /\ poll_msg' = msg
                     /\ call' = [fn |-> "MatchGroupInterface.poll",
                                 node_tree |-> node_tree, selected |-> selected]
                     /\ UNCHANGED <<trees, op, ret, outcome, edits>>
                ELSE \E r \in {MatchGroupInterface_execute(node_tree,
                                    group_nodes, selected, trees, outer,
                                    tree_links, host.reinit)} :
                        /\ edits < MaxEdits
                        /\ edits' = edits + 1
                        /\ trees' = r.trees
                        /\ op' = "MatchGroupInterface"
                        /\ ret' = r.ret
                        /\ outcome' = BaseOperator_execute([error |-> "", ret |-> r.ret])
                        /\ poll_msg' = NoMsg
                        /\ call' = [fn |-> "MatchGroupInterface",
                                    node_tree |-> node_tree,
                                    selected |-> selected]
    /\ UNCHANGED <<nodes, links, has_interface, interface, props_registered,
                   auto_seed_counter, rewritten, assigned, relabelled,
                   result, outer, group_nodes, tree_links, host>>
    /\ UNCHANGED timer_vars

SpecMatch == InitMatch /\ [][MatchGroupInterface]_vars

SpecSelect == InitSelect /\ [][MatchGroupInterface]_vars

(***************************************************************************)
(* Link integrity.                                                         *)
(***************************************************************************)
LinkIsSound(ns, l) ==
    /\ HasNode(ns, l.from_node)
    /\ HasNode(ns, l.to_node)
    /\ l.from_socket \in 1..Len(GetNode(ns, l.from_node).outputs)
    /\ l.to_socket \in 1..Len(GetNode(ns, l.to_node).inputs)

\* C11: no link of the tree has an endpoint on a node, or at a socket, that
\* the tree no longer has: after every operator, whatever its outcome, each
\* link runs from an output of a node of the tree to an input of a node of
\* the tree.
C11_NoDanglingLinks == \A l \in Range(links) : LinkIsSound(nodes, l)

\* SplitMergeGroupInput finished, removed the selected Group Input node 5 and
\* left the Math node fed by a node it created
C11_Witness ==
    /\ op = "SplitMergeGroupInput"
    /\ outcome = "FINISHED"
    /\ ~HasNode(nodes, 5)
    /\ \E l \in Range(links) : l.to_node = 1 /\ l.from_node > 6

(***************************************************************************)
(* The update handler.                                                     *)
(***************************************************************************)
\* C17: a burst of notifications is coalesced: at most one timer is pending
\* at any time (a notification replaces the pending timer), and the
\* notifications of one burst lead to one run of call_operators, not more.
C17_DebounceCoalescing ==
    /\ Len(timers) <= 1
    /\ passes <= 1

(***************************************************************************)
(* copy_socket_properties.                                                 *)
(***************************************************************************)
\* an attribute both sockets expose, whose values have the same class
Copyable(source, target, attr) ==
    /\ hasattr(source, attr)
    /\ hasattr(target, attr)
    /\ target.data[attr].class = source.data[attr].class

KeptAttr(before, after, attr) ==
    hasattr(before, attr) =>
        hasattr(after, attr) /\ after.data[attr] = before.data[attr]

\* C15: after copy_socket_properties, with neither socket menu-typed, each
\* of default_value, min_value, max_value, subtype and dimensions that both
\* sockets expose with values of the same class has the source's value on
\* the target, and every other one of the five is as it was; on a
\* menu-typed target none of the five is changed.
C15_AttributeCopyPolicy ==
    result.fn = "copy_socket_properties" =>
        IF call.target.socket_type = "NodeSocketMenu"
        THEN \A i \in 1..Len(attrs) : KeptAttr(call.target, result.value, attrs[i])
        ELSE call.source.socket_type # "NodeSocketMenu" =>
                \A i \in 1..Len(attrs) :
                    IF Copyable(call.source, call.target, attrs[i])
                    THEN /\ hasattr(result.value, attrs[i])
                         /\ result.value.data[attrs[i]] = call.source.data[attrs[i]]
                    ELSE KeptAttr(call.target, result.value, attrs[i])

(***************************************************************************)
(* MatchGroupInterface.                                                    *)
(***************************************************************************)
\* the step is a run of MatchGroupInterface that finished and had Group
\* node G1 in its selection
MatchedG1 ==
    /\ call'.fn = "MatchGroupInterface"
    /\ outcome' = "FINISHED"
    /\ "G1" \in call'.selected

G1Links == MatchedLinks(tree_links, group_nodes[1])

\* no output of the Group Input node feeds two inputs of G1
OneToOne ==
    \A i, j \in 1..Len(G1Links) :
        G1Links[i].from_socket = G1Links[j].from_socket => i = j

\* the panels above target t mirror the panels above source s, and each is
\* a panel that after did not have before the run
RECURSIVE Mirrors(_, _, _, _, _)
Mirrors(source, s, after, t, first_new) ==
    IF ParentOf(source, s) = 0 \/ ParentOf(after, t) = 0
    THEN ParentOf(source, s) = 0 /\ ParentOf(after, t) = 0
    ELSE /\ ParentOf(after, t) >= first_new
         /\ after.items[ParentOf(after, t)] = source.items[ParentOf(source, s)]
         /\ Mirrors(source, ParentOf(source, s), after, ParentOf(after, t),
                    first_new)

SameOrder(source, s1, s2, after, t1, t2) ==
    (ParentOf(source, s1) = ParentOf(source, s2)
            /\ PositionOf(source, s1) < PositionOf(source, s2))
        => /\ ParentOf(after, t1) = ParentOf(after, t2)
           /\ PositionOf(after, t1) < PositionOf(after, t2)

(* C12: after MatchGroupInterface on a Group node each of whose linked
   inputs is fed by its own Group Input output, every such input's interface
   socket in the nested tree has the name and the socket type of the outer
   interface socket that feeds it, lies under panels created by the run that
   repeat name, description and default_closed of the outer socket's panels
   level by level, and sockets that share a panel in the outer interface share
   one in the nested interface, in the same order. *)
C12_InterfaceMirroring ==
    [][(MatchedG1 /\ OneToOne) =>
        \A i \in 1..Len(G1Links) :
            /\ trees'["T1"].interface.items[G1Links[i].to_socket].name
                    = outer.items[G1Links[i].from_socket].name
            /\ trees'["T1"].interface.items[G1Links[i].to_socket].socket_type
                    = outer.items[G1Links[i].from_socket].socket_type
            /\ Mirrors(outer, G1Links[i].from_socket, trees'["T1"].interface,
                       G1Links[i].to_socket, trees["T1"].interface.next_uid)
            /\ \A j \in 1..Len(G1Links) :
                    SameOrder(outer, G1Links[i].from_socket, G1Links[j].from_socket,
                              trees'["T1"].interface, G1Links[i].to_socket,
                              G1Links[j].to_socket)]_vars

\* outer sockets A and B under panel P fed a and b of G1, and after the run
\* the nested interface has a panel named P that holds them, renamed A and
\* B, in this order
C12_Witness ==
    /\ call.fn = "MatchGroupInterface"
    /\ outcome = "FINISHED"
    /\ "G1" \in call.selected
    /\ outer.kids[5] = <<1, 2>>
    /\ \E q \in DOMAIN trees["T1"].interface.kids :
        /\ q # 0
        /\ trees["T1"].interface.items[q] = outer.items[5]
        /\ trees["T1"].interface.kids[q] = <<1, 2>>
        /\ trees["T1"].interface.items[1].name = "A"
        /\ trees["T1"].interface.items[1].socket_type = "NodeSocketFloat"
        /\ trees["T1"].interface.items[2].name = "B"
        /\ trees["T1"].interface.items[2].socket_type = "NodeSocketInt"

\* an interface without the uids of its panels: what each panel holds, in
\* order, down to the sockets
RECURSIVE ShapeOf(_, _)
ShapeOf(iface, us) ==
    [i \in 1..Len(us) |->
        IF IsPanel(iface, us[i])
        THEN [panel |-> iface.items[us[i]], socket |-> 0,
              content |-> ShapeOf(iface, iface.kids[us[i]])]
        ELSE [panel |-> 0, socket |-> us[i], content |-> iface.items[us[i]]]]

SameInterface(a, b) == ShapeOf(a, a.kids[0]) = ShapeOf(b, b.kids[0])

PanelCount(iface) == Cardinality({u \in DOMAIN iface.items : IsPanel(iface, u)})

(* C13: a run of MatchGroupInterface that follows a finished run on the same
   selection leaves every nested interface as the first run left it: the same
   sockets with the same properties, in panels of the same names with the
   same nesting and order, and as many panels as before. *)
C13_FixedPoint ==
    [][(/\ call.fn = "MatchGroupInterface" /\ outcome = "FINISHED"
        /\ call'.fn = "MatchGroupInterface" /\ outcome' = "FINISHED"
        /\ call'.selected = call.selected) =>
        \A t \in DOMAIN trees :
            /\ SameInterface(trees[t].interface, trees'[t].interface)
            /\ PanelCount(trees'[t].interface) = PanelCount(trees[t].interface)]_vars

\* the second run on G1 has finished: the panels of the nested interface
\* are the ones that this run created
C13_Witness ==
    /\ call.fn = "MatchGroupInterface"
    /\ outcome = "FINISHED"
    /\ edits = 2
    /\ "G1" \in call.selected
    /\ PanelCount(trees["T1"].interface) = 2
    /\ \A u \in DOMAIN trees["T1"].interface.items :
            IsPanel(trees["T1"].interface, u) => u >= 11

Sockets(iface) == {u \in DOMAIN iface.items : ~IsPanel(iface, u)}

\* the trees of the selected Group nodes
SelectedTrees(selected) ==
    {group_nodes[i].node_tree : i \in {k \in 1..Len(group_nodes) :
                                        group_nodes[k].name \in selected}}

(* C14: after a finished run of MatchGroupInterface the interface of each
   matched tree has no panel without a socket below it and no panel named
   "Root_temp", and it has every socket that it had before the run. *)
C14_EmptyPanelPruning ==
    [][(call'.fn = "MatchGroupInterface" /\ outcome' = "FINISHED") =>
        \A t \in SelectedTrees(call'.selected) :
            /\ \A u \in DOMAIN trees'[t].interface.items :
                    IsPanel(trees'[t].interface, u) =>
                        /\ ~is_panel_empty(trees'[t].interface, u)
                        /\ trees'[t].interface.items[u].name # "Root_temp"
            /\ Sockets(trees[t].interface) \subseteq Sockets(trees'[t].interface)]_vars

\* a finished run on G1 whose tree had the empty panel E: E is gone, a
\* panel with content is there and the four sockets are
C14_Witness ==
    /\ call.fn = "MatchGroupInterface"
    /\ outcome = "FINISHED"
    /\ "G1" \in call.selected
    /\ edits = 1
    /\ 6 \notin DOMAIN trees["T1"].interface.items
    /\ PanelCount(trees["T1"].interface) >= 1
    /\ Sockets(trees["T1"].interface) = {1, 2, 3, 4}

(* C20: after a finished run of MatchGroupInterface on G1, whose output y is
   linked to the Group Output node's input X, the nested interface's output
   socket has the name and the socket type of the outer interface's output
   socket. *)
C20_OutputsMatched ==
    (call.fn = "MatchGroupInterface" /\ outcome = "FINISHED" /\ "G1" \in call.selected) =>
        \A i \in 1..Len(tree_links) :
            (tree_links[i].from_node = "G1"
                    /\ tree_links[i].to_bl_idname = "NodeGroupOutput") =>
                /\ trees["T1"].interface.items[tree_links[i].from_socket].name
                        = outer.items[tree_links[i].to_socket].name
                /\ trees["T1"].interface.items[tree_links[i].from_socket].socket_type
                        = outer.items[tree_links[i].to_socket].socket_type

\* a selected node that is a Group node whose tree exists, is editable, is
\* not linked from a library and has an interface
Qualifies(name) ==
    \E i \in 1..Len(group_nodes) :
        /\ group_nodes[i].name = name
        /\ group_nodes[i].bl_idname \in Range(GroupNodeTypes)
        /\ group_nodes[i].node_tree # "None"
        /\ trees[group_nodes[i].node_tree].is_editable
        /\ ~trees[group_nodes[i].node_tree].library
        /\ trees[group_nodes[i].node_tree].has_interface

IsGroupNode(name) ==
    \E i \in 1..Len(group_nodes) :
        /\ group_nodes[i].name = name
        /\ group_nodes[i].bl_idname \in Range(GroupNodeTypes)

\* the step is a poll of MatchGroupInterface that passed msg to
\* poll_message_set: the operator did not run and no interface changed
RefusedWith(msg) ==
    /\ call'.fn = "MatchGroupInterface.poll"
    /\ poll_msg' = msg
    /\ UNCHANGED <<op, ret, outcome, edits>>
    /\ trees' = trees

\* the step is a run of MatchGroupInterface that finished
MatchFinished ==
    /\ call'.fn = "MatchGroupInterface"
    /\ op' = "MatchGroupInterface"
    /\ outcome' = "FINISHED"
    /\ poll_msg' = NoMsg

\* the step is a run of MatchGroupInterface that was cancelled with msg
CancelledWith(msg) ==
    /\ call'.fn = "MatchGroupInterface"
    /\ outcome' = "CANCELLED"
    /\ ret'.message = msg
    /\ ret'.message_type = "ERROR"
    /\ trees' = trees

(* C16 as claimed: in a node editor on an editable tree, MatchGroupInterface
   on a selection without a qualifying Group node, the empty selection and a
   selection without Group nodes included, is turned away (cancelled, or
   refused by its poll) with "No editable Group nodes selected." and changes
   no interface; with a qualifying Group node selected it finishes. *)
C16_NoQualifyingContainer ==
    [][call'.node_tree = NoMsg =>
        IF \E name \in call'.selected : Qualifies(name)
        THEN MatchFinished
        ELSE \/ CancelledWith("No editable Group nodes selected.")
             \/ RefusedWith("No editable Group nodes selected.")]_vars

(* C16 amended: MatchGroupInterface on a selection without a qualifying
   Group node is refused by its poll with a message, does not run and changes
   no interface; the message is "No nodes selected." for the empty selection,
   "No selected nodes of type [...]." with the four Group node types when no
   Group node is selected, and "No editable Group nodes selected." when Group
   nodes are selected and none qualifies; where the editor shows no editable
   tree the message is the editor's.  With a qualifying Group node selected
   it runs and finishes. *)
C16_CancelMessages ==
    [][IF call'.node_tree # NoMsg THEN RefusedWith(call'.node_tree)
       ELSE IF call'.selected = {} THEN RefusedWith("No nodes selected.")
       ELSE IF \A name \in call'.selected : ~IsGroupNode(name)
       THEN RefusedWith("No selected nodes of type ['CompositorNodeGroup', 'GeometryNodeGroup', 'ShaderNodeGroup', 'TextureNodeGroup'].")
       ELSE IF \A name \in call'.selected : ~Qualifies(name)
       THEN RefusedWith("No editable Group nodes selected.")
       ELSE MatchFinished]_vars

\* G2, whose tree is linked from a library, was selected alone and the poll
\* refused with the message
C16_Witness ==
    /\ call.fn = "MatchGroupInterface.poll"
    /\ call.node_tree = NoMsg
    /\ call.selected = {"G2"}
    /\ group_nodes[2].node_tree = "T2"
    /\ trees["T2"].library
    /\ poll_msg = "No editable Group nodes selected."
    /\ outcome = "none"

(* C21: after a finished run of MatchGroupInterface on G1, every input of G1
   that is linked from an output of the Group Input node has an interface
   socket in the nested tree with the name and the socket type of the outer
   interface socket it is linked from, also when one Group Input output feeds
   several inputs of G1. *)
C21_EveryLinkedInputMatched ==
    [][MatchedG1 =>
        \A i \in 1..Len(G1Links) :
            /\ trees'["T1"].interface.items[G1Links[i].to_socket].name
                    = outer.items[G1Links[i].from_socket].name
            /\ trees'["T1"].interface.items[G1Links[i].to_socket].socket_type
                    = outer.items[G1Links[i].from_socket].socket_type]_vars

(***************************************************************************)
(* Runs of SplitMergeGroupInput on a tree whose two Group Input nodes feed *)
(* the Math node, the Reroute and the multi-input String Join through up   *)
(* to MaxLinks links; call keeps the editor's tree, the selection and the  *)
(* two properties of each run.                                             *)
(***************************************************************************)
MaxLinks == 3

\* the links the user may have drawn from outputs Seed and Value of Group
\* Input nodes 5 and 6 to the first input of nodes 1, 2 and 3
SplitCandidates ==
    [k \in 1..12 |-> MkLink(5 + ((k - 1) \div 6), 1 + (((k - 1) \div 3) % 2),
                            1 + ((k - 1) % 3), 1)]

\* no input socket holds more links than its link limit
WithinLimits(ns, ls) ==
    \A i \in 1..Len(ls) :
        CountInto(ls, ls[i].to_node, ls[i].to_socket)
            <= GetNode(ns, ls[i].to_node).inputs[ls[i].to_socket].link_limit

PickLinks(chosen) ==
    SelectSeq(SplitCandidates,
              LAMBDA l : \E k \in chosen : SplitCandidates[k] = l)

InitSplit ==
    /\ has_interface = TRUE
    /\ interface = SeedInterface
    /\ nodes = InitNodes(SeedInterface)
    /\ props_registered = TRUE
    /\ \E chosen \in SUBSET (1..12) :
        /\ Cardinality(chosen) <= MaxLinks
        /\ WithinLimits(InitNodes(SeedInterface), PickLinks(chosen))
        /\ links = PickLinks(chosen)
    /\ auto_seed_counter = 0
    /\ op = "none"
    /\ ret = RetNone
    /\ poll_msg = NoMsg
    /\ outcome = "none"
    /\ rewritten = 0
    /\ assigned = {}
    /\ relabelled = 0
    /\ edits = 0
    /\ call = NoCall
    /\ result = NoCall
    /\ AuxInit

\* SplitMergeGroupInput with its two properties, run once: poll(context)
\* and, where it holds, execute(context)
SplitMergeGroupInputRun ==
    /\ call = NoCall
    /\ \E node_tree \in {get_editable_node_tree(ctx) : ctx \in Contexts} :
         \E selected \in Selections(nodes), mode \in Modes,
            process_individually \in BOOLEAN :
             \E msg \in {get_selected_nodes(node_tree, nodes, selected,
                                            <<"NodeGroupInput">>).msg} :
                 IF msg # NoMsg THEN PollRefused(msg)
                 ELSE \E r \in {SplitMergeGroupInput_execute(node_tree, nodes,
                                     links, selected, mode,
                                     process_individually, interface,
                                     auto_seed_counter)} :
                         /\ InBounds(r)
                         /\ ApplyTree("SplitMergeGroupInput", r)
                         /\ call' = [fn |-> "SplitMergeGroupInput",
                                     node_tree |-> node_tree,
                                     selected |-> selected, mode |-> mode,
                                     process_individually |-> process_individually]
                         /\ UNCHANGED <<result, edits>>

SpecSplit == InitSplit /\ [][SplitMergeGroupInputRun]_vars

\* the step is a finished run of SplitMergeGroupInput
SplitMergeFinished ==
    /\ op' = "SplitMergeGroupInput"
    /\ outcome' = "FINISHED"

NamesOf(ns) == {ns[i].name : i \in 1..Len(ns)}

\* the nodes the step created
CreatedNodes == NamesOf(nodes') \ NamesOf(nodes)

\* the links that left the selected nodes before the step
LeavingLinks == {l \in Range(links) : l.from_node \in call'.selected}

\* the number of groups the links fall in: links, destination nodes, source
\* socket indices, or all in one; per selected node where the run processes
\* the nodes individually by destination node or by source socket
ExpectedGroups(mode, individually, leaving) ==
    CASE mode = "SPLIT_ALL" -> Cardinality(leaving)
      [] mode = "DEST_NODE" /\ individually ->
            Cardinality({<<l.from_node, l.to_node>> : l \in leaving})
      [] mode = "DEST_NODE" /\ ~individually ->
            Cardinality({l.to_node : l \in leaving})
      [] mode = "SOURCE_SOCKET" /\ individually ->
            Cardinality({<<l.from_node, l.from_socket>> : l \in leaving})
      [] mode = "SOURCE_SOCKET" /\ ~individually ->
            Cardinality({l.from_socket : l \in leaving})
      [] OTHER -> IF leaving = {} THEN 0 ELSE 1

(* C22: a finished run of SplitMergeGroupInput creates as many Group Input
   nodes as links leave the selected nodes in mode SPLIT_ALL, as these links
   have destination nodes in mode DEST_NODE, as they have source socket
   indices in mode SOURCE_SOCKET, and one in mode MERGE_ALL when there is a
   link; with process_individually the destination nodes and the source
   socket indices are counted per selected node. *)
C22_NodeCountPerMode ==
    [][SplitMergeFinished =>
        /\ \A name \in CreatedNodes :
                GetNode(nodes', name).bl_idname = "NodeGroupInput"
        /\ Cardinality(CreatedNodes)
            = ExpectedGroups(call'.mode, call'.process_individually,
                             LeavingLinks)]_vars

\* both Group Input nodes fed the String Join and were processed
\* individually by destination node: two new nodes, 7 and 8, feed it
C22_Witness ==
    /\ op = "SplitMergeGroupInput"
    /\ outcome = "FINISHED"
    /\ call.mode = "DEST_NODE"
    /\ call.process_individually
    /\ call.selected = {5, 6}
    /\ NamesOf(nodes) = {1, 2, 3, 4, 7, 8}
    /\ \E i, j \in 1..Len(links) :
        /\ links[i].from_node = 7 /\ links[i].to_node = 3
        /\ links[j].from_node = 8 /\ links[j].to_node = 3

\* the links of the new tree from output i of a created node to socket s of
\* node n
RelinkedLike(l) ==
    {k \in 1..Len(links') :
        /\ links'[k].from_node \in CreatedNodes
        /\ links'[k].from_socket = l.from_socket
        /\ links'[k].to_node = l.to_node
        /\ links'[k].to_socket = l.to_socket}

\* the links that left the selected nodes from the same output index to the
\* same destination socket as l
LeavingLike(l) ==
    {m \in LeavingLinks :
        /\ m.from_socket = l.from_socket
        /\ m.to_node = l.to_node
        /\ m.to_socket = l.to_socket}

\* the selected nodes are gone and the links of the other nodes are the
\* ones they were
SelectionReplaced ==
    /\ \A name \in call'.selected : ~HasNode(nodes', name)
    /\ {l \in Range(links') : l.from_node \notin CreatedNodes}
            = Range(links) \ LeavingLinks

\* the run keeps the links of different selected nodes in different groups
KeepsNodesApart ==
    \/ call'.mode = "SPLIT_ALL"
    \/ /\ call'.process_individually
       /\ call'.mode \in {"DEST_NODE", "SOURCE_SOCKET"}

(* C23 as claimed: after a finished run of SplitMergeGroupInput every
   selected Group Input node is gone, each link that left output i of a
   selected node for socket s has exactly one link from output i of a created
   Group Input node to s, and the links that left no selected node are
   unchanged. *)
C23_ExactlyOneLink ==
    [][SplitMergeFinished =>
        /\ SelectionReplaced
        /\ \A l \in LeavingLinks : Cardinality(RelinkedLike(l)) = 1]_vars

(* C23 amended: after a finished run of SplitMergeGroupInput every selected
   Group Input node is gone, the links that left no selected node are
   unchanged, every link of a created node runs from an output index to a
   socket that a link of a selected node ran from and to, and each link that
   left output i of a selected node for socket s has a link from output i of
   a created Group Input node to s: one such link where the run merges the
   selected nodes' links into one group, and as many as selected nodes fed s
   from output i where it keeps the nodes apart. *)
C23_ConnectivityPreserved ==
    [][SplitMergeFinished =>
        /\ SelectionReplaced
        /\ \A k \in 1..Len(links') :
                links'[k].from_node \in CreatedNodes =>
                    \E l \in LeavingLinks : k \in RelinkedLike(l)
        /\ \A l \in LeavingLinks :
                Cardinality(RelinkedLike(l))
                    = IF KeepsNodesApart THEN Cardinality(LeavingLike(l)) ELSE 1]_vars

\* both Group Input nodes fed the String Join from output 1 and were split:
\* nodes 7 and 8 replace them, each with a link from output 1
C23_Witness ==
    /\ op = "SplitMergeGroupInput"
    /\ outcome = "FINISHED"
    /\ call.mode = "SPLIT_ALL"
    /\ call.selected = {5, 6}
    /\ NamesOf(nodes) = {1, 2, 3, 4, 7, 8}
    /\ Range(links) = {MkLink(7, 1, 3, 1), MkLink(8, 1, 3, 1)}

(***************************************************************************)
(* Runs of HideRenameSingleOutputNode on a tree in which the user has      *)
(* hidden outputs of Group Input node 6, labelled and collapsed it, and    *)
(* hidden the Math node's input, and toggles nodes with HideResizeNode.    *)
(***************************************************************************)
RenameLabels == {S_Empty, S_Seed, S_Value}

\* node 6 with its outputs hidden as hidden says, a label and a hide flag,
\* and the Math node with its input hidden or not
RenameNodes(hidden, label, hide, input_hidden) ==
    [InitNodes(SeedInterface) EXCEPT
        ![6].outputs = [i \in 1..3 |-> [@[i] EXCEPT !.hide = hidden[i]]],
        ![6].label = label,
        ![6].hide = hide,
        ![1].inputs[1].hide = input_hidden]

InitRename ==
    /\ has_interface = TRUE
    /\ interface = SeedInterface
    /\ \E hidden \in [1..3 -> BOOLEAN], label \in RenameLabels,
          hide \in BOOLEAN, input_hidden \in BOOLEAN :
            nodes = RenameNodes(hidden, label, hide, input_hidden)
    /\ links = <<>>
    /\ props_registered = TRUE
    /\ auto_seed_counter = 0
    /\ op = "none"
    /\ ret = RetNone
    /\ poll_msg = NoMsg
    /\ outcome = "none"
    /\ rewritten = 0
    /\ assigned = {}
    /\ relabelled = 0
    /\ edits = 0
    /\ call = NoCall
    /\ result = NoCall
    /\ AuxInit

NextRename ==
    \/ HideRenameSingleOutputNode
    \/ HideResizeNode

SpecRename == InitRename /\ [][NextRename]_vars

\* a node without a visible input and with exactly one visible output
SingleOutputNode(n) ==
    /\ \A i \in 1..Len(n.inputs) : is_socket_hidden(n.inputs[i])
    /\ Len(VisibleOutputs(n)) = 1

(* C24: after HideRenameSingleOutputNode has run on the tree, every node
   without a visible input and with exactly one visible output is collapsed
   and labelled with that output's name, and a run that follows a run
   changes no node. *)
C24_HideRenamePostcondition ==
    [][(op' = "HideRenameSingleOutputNode" /\ poll_msg' = NoMsg) =>
        /\ \A i \in 1..Len(nodes') :
                SingleOutputNode(nodes'[i]) =>
                    /\ nodes'[i].hide
                    /\ nodes'[i].label = VisibleOutputs(nodes'[i])[1].name
        /\ (op = "HideRenameSingleOutputNode" /\ poll_msg = NoMsg)
                => nodes' = nodes]_vars

\* the number in the Value input of a hash node
ValueOf(n) == n.inputs[SocketByName(n.inputs, S_Value)].default_value

\* node i but for its label and the number in its Value input
Untouched(n) ==
    [name |-> n.name, bl_idname |-> n.bl_idname, hide |-> n.hide,
     parent |-> n.parent, outputs |-> n.outputs,
     inputs |-> [s \in 1..Len(n.inputs) |-> [n.inputs[s] EXCEPT !.default_value = 0]]]

(* C28: ResetSeeds runs only where auto_seed_counter is not 0; after it has
   run on a tree with n tagged hash nodes, the k-th tagged node in node order
   is labelled with index k - 1 and has k - 1 in its Value input, so the
   indices are 0..n-1, each once; auto_seed_counter is n; the links are the
   same, the nodes are the same nodes in the same order, and no node but a
   tagged one is changed. *)
C28_ResetSeedsRenumbering ==
    [][ResetSeedsRan =>
        /\ auto_seed_counter # 0
        /\ \A ctx \in Contexts : ResetSeeds_poll(ctx, props_registered, 0) # NoMsg
        /\ Len(nodes') = Len(nodes)
        /\ \A i \in 1..Len(nodes) :
            IF IsTagged(nodes[i])
            THEN /\ nodes'[i].label
                        = FormatLabel(Cardinality({j \in TaggedNodes(nodes) : j < i}))
                 /\ ValueOf(nodes'[i]) = Cardinality({j \in TaggedNodes(nodes) : j < i})
                 /\ Untouched(nodes'[i]) = Untouched(nodes[i])
            ELSE nodes'[i] = nodes[i]
        /\ {nodes'[i].label : i \in TaggedNodes(nodes')}
                = {FormatLabel(k) : k \in 0..(Cardinality(TaggedNodes(nodes)) - 1)}
        /\ auto_seed_counter' = Cardinality(TaggedNodes(nodes))
        /\ links' = links]_vars

\* ResetSeeds has run on a tree with one tagged node left, which carried
\* index 1 and now carries index 0 in its label and in its Value input
C28_Witness ==
    /\ op = "ResetSeeds"
    /\ relabelled = 1
    /\ auto_seed_counter = 1
    /\ \E i \in 1..Len(nodes) :
        /\ TaggedNodes(nodes) = {i}
        /\ nodes[i].label = FormatLabel(0)
        /\ ValueOf(nodes[i]) = 0

\* RandomizeSeed and ResetSeeds on a tree in which the user draws links and
\* deletes hash nodes
NextCounter ==
    \/ RandomizeSeed
    \/ ResetSeeds
    \/ UserLink
    \/ UserDelete

SpecCounter == Init /\ [][NextCounter]_vars

(* C26: in every state reached by runs of RandomizeSeed and ResetSeeds and
   by the user's deletions, every tagged hash node carries in its label an
   index below auto_seed_counter, and has that index in its Value input. *)
C26_CounterDominates ==
    \A i \in TaggedNodes(nodes) :
        \E k \in 0..MaxCounter :
            /\ nodes[i].label = FormatLabel(k)
            /\ k < auto_seed_counter
            /\ ValueOf(nodes[i]) = k

(***************************************************************************)
(* Registration of the add-on.  The host enables and disables the add-on   *)
(* by calling register() and unregister() of its modules: properties.py    *)
(* sets and deletes NodeTree.node_tools, preferences.py registers and      *)
(* unregisters the Preferences class, and handlers.py subscribes and       *)
(* unsubscribes depsgraph_handler.  get_preferences() returns nothing      *)
(* while the Preferences class is not registered.                          *)
(***************************************************************************)
\* handlers.register(): without preferences it returns at once
register(has_prefs, post) ==
    IF ~has_prefs THEN post ELSE Append(post, "depsgraph_handler")

\* list.remove(x): the first entry equal to x goes
ListRemove(list, x) ==
    [i \in 1..(Len(list) - 1) |->
        IF i < (CHOOSE k \in 1..Len(list) : list[k] = x /\ \A j \in 1..(k - 1) : list[j] # x)
        THEN list[i] ELSE list[i + 1]]

\* handlers.unregister(): no timer is unregistered
unregister(post) ==
    IF "depsgraph_handler" \in Range(post)
    THEN ListRemove(post, "depsgraph_handler")
    ELSE post

UnchangedByRegister ==
    /\ UNCHANGED <<nodes, links, has_interface, interface, auto_seed_counter,
                   ret, poll_msg, outcome, rewritten, assigned, relabelled,
                   edits, timers, updates, passes, runs>>
    /\ UNCHANGED call_vars
    /\ UNCHANGED match_vars

\* the modules' register(): handlers.register() finds the preferences when
\* preferences.register() has run before it
Register ==
    /\ ~enabled
    /\ enabled' = TRUE
    /\ props_registered' = TRUE
    /\ \E has_prefs \in BOOLEAN :
            depsgraph_update_post' = register(has_prefs, depsgraph_update_post)
    /\ op' = "register"
    /\ UnchangedByRegister

\* the modules' unregister()
Unregister ==
    /\ enabled
    /\ enabled' = FALSE
    /\ props_registered' = FALSE
    /\ depsgraph_update_post' = unregister(depsgraph_update_post)
    /\ op' = "unregister"
    /\ UnchangedByRegister

\* a timer fires while the add-on is registered or after it was
\* unregistered: get_preferences() finds the preferences of a registered
\* add-on only
FireRegistered ==
    FirePass({enabled}, SUBSET handler_operators, MaxNodes, MaxCounter, FALSE)

NextRegister ==
    \/ Notify
    \/ FireRegistered
    \/ Register
    \/ Unregister

SpecRegister == Init /\ [][NextRegister]_vars

(* The tree holds at most one seed link and no hash node when the          *)
(* notification arrives.                                                   *)
(***************************************************************************)
\* a pass inserts two nodes and uses one index for a seed link; a chain is
\* followed while its tree stays within these
MaxChainNodes == 14
MaxChainCounter == 4

ChainLinks ==
    {<<>>, <<MkLink(5, 1, 1, 1)>>, <<MkLink(5, 1, 2, 1)>>,
     <<MkLink(5, 1, 3, 1)>>, <<MkLink(6, 1, 3, 1)>>}

InitChain ==
    /\ has_interface = TRUE
    /\ interface = SeedInterface
    /\ \E hidden \in [1..3 -> BOOLEAN], label \in RenameLabels, hide \in BOOLEAN :
            nodes = RenameNodes(hidden, label, hide, FALSE)
    /\ links \in ChainLinks
    /\ props_registered = TRUE
    /\ auto_seed_counter = 0
    /\ op = "none"
    /\ ret = RetNone
    /\ poll_msg = NoMsg
    /\ outcome = "none"
    /\ rewritten = 0
    /\ assigned = {}
    /\ relabelled = 0
    /\ edits = 0
    /\ timers = <<<<"NodeTree">>>>
    /\ updates = <<>>
    /\ passes = 0
    /\ runs = <<>>
    /\ depsgraph_update_post = <<"depsgraph_handler">>
    /\ enabled = TRUE
    /\ MatchInit
    /\ call = NoCall
    /\ result = NoCall

\* the timer of the chain fires: the pass runs with both handler operators
\* active, and the update it raises is followed
Reconcile ==
    FirePass({TRUE}, {handler_operators}, MaxChainNodes, MaxChainCounter, TRUE)

\* the host delivers the update that a pass has raised: depsgraph_handler
\* registers the timer of the next pass
Renotify ==
    /\ updates # <<>>
    /\ timers' = register_timer(timers, depsgraph_update_post, updates)
    /\ updates' = <<>>
    /\ UNCHANGED <<nodes, links, has_interface, interface, props_registered,
                   auto_seed_counter, op, ret, poll_msg, outcome, rewritten,
                   assigned, relabelled, edits, passes, runs,
                   depsgraph_update_post, enabled>>
    /\ UNCHANGED call_vars
    /\ UNCHANGED match_vars

NextChain ==
    \/ Reconcile
    \/ Renotify

SpecChain == InitChain /\ [][NextChain]_vars

\* the tree holds a seed link into a socket that takes one more link
OpenSeedLink(ns, ls) ==
    \E l \in Range(get_seed_links(ns, ls)) :
        CountInto(ls, l.to_node, l.to_socket) + 1 <=
            GetNode(ns, l.to_node).inputs[l.to_socket].link_limit


\* why the chain that breaks C25 has no end: a pass on a tree with a seed
\* link into a socket that takes one more link calls an operator, and when
\* that is RandomizeSeed the pass inserts two nodes, leaves such a seed link
\* behind and raises the update that schedules the next pass
ChainRecurs ==
    [][(passes' = passes + 1 /\ OpenSeedLink(nodes, links)) =>
            /\ runs' # <<>>
            /\ Head(runs')[1] = "RandomizeSeed" =>
                    /\ rewritten' > 0
                    /\ Len(nodes') = Len(nodes) + 2
                    /\ OpenSeedLink(nodes', links')
                    /\ updates' = <<"NodeTree">>]_vars

====
